---- MODULE Spec2Model ----
(***************************************************************************)
(* Agent tools of Chugyy/agent-tools: the calendar, communication          *)
(* (WhatsApp relay, e-mail) and YouTube transcript tools, their service    *)
(* clients and the retry decorators wrapped around the client calls.       *)
(*                                                                         *)
(* One tool invocation runs at a time.  A tool validates its arguments,    *)
(* calls one wrapped client function and converts the outcome to text.     *)
(* A wrapped call is a loop: every step of it runs the client function     *)
(* once against the remote service (whose answers are chosen               *)
(* nondeterministically) and then the decorator's handling of the outcome  *)
(* (return, propagate, or count a retry and sleep).                        *)
(*                                                                         *)
(* Python values are tagged records (field t), texts are sequences of      *)
(* string tokens.                                                          *)
(***************************************************************************)
EXTENDS Integers, Sequences, FiniteSets, TLC

VARIABLES
    tool,      \* the invocation in progress: [name, args]
    tpc,       \* "idle" | "core" (inside the wrapped client call) | "done"
    tret,      \* what the invocation handed back to its caller
    w,         \* the frame of the retry decorator's wrapper
    log,       \* remote requests and sleeps of the invocation, in order
    fetched,   \* the event delivered by the last successful events.get
    cal,       \* the calendar provider: does event e1 exist, and its content
    prev       \* the outcome of the invocation just before, if it was a delete

vars == <<tool, tpc, tret, w, log, fetched, cal, prev>>

(***************************************************************************)
(* Python values                                                           *)
(***************************************************************************)
PyNone == [t |-> "None"]
PyBool(b) == [t |-> "bool", b |-> b]
PyStr(tokens) == [t |-> "str", s |-> tokens]
PyList(items) == [t |-> "list", l |-> items]
PyDict(d) == [t |-> "dict", d |-> d]

Exc(cls, status, msg) == [cls |-> cls, status |-> status, msg |-> msg]
NoExc == Exc("none", 0, <<>>)

\* The outcome of one run of a function: a returned value or a raised exception.
Ret(v) == [kind |-> "ret", val |-> v, exc |-> NoExc]
Raise(e) == [kind |-> "exc", val |-> PyNone, exc |-> e]

\* Log entries.
Req(name, status) == [ev |-> "req", x |-> name, n |-> status]
Slept(d) == [ev |-> "sleep", x |-> "time.sleep", n |-> d]
Failed(name) == [ev |-> "fail", x |-> name, n |-> 0]
Did(name) == [ev |-> "did", x |-> name, n |-> 0]

\* One possible run of a client function: its outcome, the requests it
\* issued, and the provider state and fetched event it leaves behind.
Exec(out, reqs, c, fe) == [out |-> out, reqs |-> reqs, cal |-> c, fetched |-> fe]

(***************************************************************************)
(* The remote services: status codes a provider may answer with.  0 stands *)
(* for a network-level failure (no answer), 200 for success.               *)
(***************************************************************************)
CalendarStatuses == {400, 401, 403, 404, 500}
RelayStatuses == {400, 401, 403, 422, 500}
ReqOk(name) == Req(name, 200)
\* A request answered 200 with the JSON body response.json() returns
Answered(name, body) == [ev |-> "req", x |-> name, n |-> 200, body |-> body]
ReqNet(name) == Req(name, 0)

(***************************************************************************)
(* The retry decorators                                                    *)
(***************************************************************************)
DefaultMaxRetries == 3
DefaultDelay == 1
EmailMaxRetries == 2
EmailDelay == 2

NoFrame ==
    [func |-> "none", domain |-> "none", max_retries |-> 0, delay |-> 0,
     retries |-> 0, state |-> "idle", val |-> PyNone, exc |-> NoExc,
     calls |-> 0, sleeps |-> <<>>, outs |-> <<>>]

\* wrapper(*args, **kwargs) entered: retries = 0
NewFrame(func, domain, max_retries, delay) ==
    [NoFrame EXCEPT !.func = func, !.domain = domain,
                    !.max_retries = max_retries, !.delay = delay,
                    !.state = "running"]

\* A wrapper that would drop the value of the successful attempt.
Returned_nothing(f, v) == [f EXCEPT !.state = "returned", !.val = PyNone]

\* return func(*args, **kwargs)
Returned(f, v) == [f EXCEPT !.state = "returned", !.val = v]

\* raise
Propagate(f, e) == [f EXCEPT !.state = "raised", !.exc = e]

\* A wrapper that would give up one attempt early.
retries_exhausted_early(retries, max_retries) == retries >= max_retries

\* if retries > max_retries
retries_exhausted(retries, max_retries) == retries > max_retries

\* delay * (2 ** (retries - 1))
backoff(delay, retries) == delay * (2 ^ (retries - 1))

\* time.sleep(d), then the loop goes round
Sleep(f, d) == [f EXCEPT !.sleeps = Append(@, d)]

\* retries += 1; if retries > max_retries: raise; time.sleep(d)
Retry(f, e, exponential) ==
    LET r == f.retries + 1
        g == [f EXCEPT !.retries = r]
    IN  IF retries_exhausted(r, f.max_retries)
        THEN Propagate(g, e)
        ELSE Sleep(g, IF exponential THEN backoff(f.delay, r) ELSE f.delay)

\* A wrapper that would take 404 for a retryable status.
calendar_non_retryable_without_404 == {400, 401, 403}

calendar_non_retryable == {400, 401, 403, 404}

\* One round of the calendar wrapper's loop, func having run with outcome out.
calendar_wrapper(f, out) ==
    LET g == [f EXCEPT !.calls = @ + 1, !.outs = Append(@, out)]
    IN  IF out.kind = "ret" THEN Returned(g, out.val)
        ELSE IF out.exc.cls = "HttpError"
        THEN IF out.exc.status \in calendar_non_retryable
             THEN Propagate(g, out.exc)
             ELSE Retry(g, out.exc, TRUE)
        ELSE Retry(g, out.exc, FALSE)

communication_non_retryable == {400, 401, 403, 422}

\* One round of the communication wrapper's loop.
communication_wrapper(f, out) ==
    LET g == [f EXCEPT !.calls = @ + 1, !.outs = Append(@, out)]
    IN  IF out.kind = "ret" THEN Returned(g, out.val)
        ELSE IF out.exc.cls = "HTTPError"
        THEN IF out.exc.status \in communication_non_retryable
             THEN Propagate(g, out.exc)
             ELSE Retry(g, out.exc, TRUE)
        ELSE IF out.exc.cls \in {"ConnectionError", "Timeout"}
        THEN Retry(g, out.exc, TRUE)
        ELSE Retry(g, out.exc, FALSE)

(***************************************************************************)
(* The calendar provider.  The model follows one event, e1; the provider   *)
(* answers 404 for it exactly when it does not exist.                      *)
(***************************************************************************)
TimeZone == "Europe/Paris"

Event(summary, description, location, start, end, attendees) ==
    [t |-> "event", id |-> "e1", summary |-> summary,
     description |-> description, location |-> location,
     start |-> start, end |-> end, attendees |-> attendees]

InitialEvent ==
    Event(PyStr(<<"standup">>), PyNone, PyNone,
          [dateTime |-> PyStr(<<"2024-07-01T10:00:00">>), timeZone |-> TimeZone],
          [dateTime |-> PyStr(<<"2024-07-01T11:00:00">>), timeZone |-> TimeZone],
          <<>>)

\* events.patch: the fields of the body replace the event's.
Patched(event, body) ==
    [k \in DOMAIN event |-> IF k \in DOMAIN body THEN body[k] ELSE event[k]]

HttpError(status) == Exc("HttpError", status, <<"HttpError ", ToString(status)>>)
TransportError == Exc("ConnectionError", 0, <<"connection failed">>)

\* The failures of one request: an HTTP error status or no answer at all.
\* A request naming e1 gets a 404 exactly when e1 does not exist.
CalendarFailures(name, statuses, c, fe) ==
    {Exec(Raise(HttpError(s)), <<Req(name, s)>>, c, fe) : s \in statuses}
    \cup {Exec(Raise(TransportError), <<ReqNet(name)>>, c, fe)}

EventStatuses(c) == IF c.exists THEN CalendarStatuses \ {404} ELSE CalendarStatuses

NoEvents == [exists |-> FALSE, event |-> PyNone]

\* get_calendar_service(): the credentials may fail to load
get_calendar_service ==
    {Ret(PyStr(<<"service">>)),
     Raise(Exc("FileNotFoundError", 0, <<"Fichier de credentials introuvable.">>))}

\* The runs of func in which get_calendar_service() raises.
ServiceFailures(c, fe) ==
    {Exec(s, <<Failed("get_calendar_service")>>, c, fe) :
        s \in {x \in get_calendar_service : x.kind = "exc"}}

(***************************************************************************)
(* src/calendar/core.py: the wrapped client functions, each as the set of  *)
(* its possible runs                                                       *)
(***************************************************************************)
core_list_events(args, c, fe) ==
    ServiceFailures(c, fe)
    \cup CalendarFailures("events.list", CalendarStatuses, c, fe)
    \cup {Exec(Ret(PyList(IF c.exists THEN <<c.event>> ELSE <<>>)),
               <<ReqOk("events.list")>>, c, fe)}

create_event_body(args) ==
    Event(args.summary, args.description, args.location,
          [dateTime |-> args.start_time, timeZone |-> TimeZone],
          [dateTime |-> args.end_time, timeZone |-> TimeZone],
          IF args.attendees # PyNone /\ args.attendees.l # <<>>
          THEN [i \in 1..Len(args.attendees.l) |-> [email |-> args.attendees.l[i]]]
          ELSE <<>>)

\* The provider stores the new event as e1 when e1 is free; an event it
\* stores under another id is not followed.
core_create_event(args, c, fe) ==
    ServiceFailures(c, fe)
    \cup CalendarFailures("events.insert", CalendarStatuses, c, fe)
    \cup {IF c.exists
          THEN Exec(Ret([create_event_body(args) EXCEPT !.id = "e2"]),
                    <<ReqOk("events.insert")>>, c, fe)
          ELSE Exec(Ret(create_event_body(args)), <<ReqOk("events.insert")>>,
                    [exists |-> TRUE, event |-> create_event_body(args)], fe)}

\* event_body = {} ... if 'attendees' in updates and updates['attendees'] is not None
event_body_keys(updates) ==
    {k \in {"summary", "description", "location"} : k \in DOMAIN updates}
    \cup (IF "start_time" \in DOMAIN updates THEN {"start"} ELSE {})
    \cup (IF "end_time" \in DOMAIN updates THEN {"end"} ELSE {})
    \cup (IF "attendees" \in DOMAIN updates /\ updates["attendees"] # PyNone
          THEN {"attendees"} ELSE {})

event_body(updates) ==
    [k \in event_body_keys(updates) |->
        CASE k = "start" -> [dateTime |-> updates["start_time"], timeZone |-> TimeZone]
          [] k = "end" -> [dateTime |-> updates["end_time"], timeZone |-> TimeZone]
          [] k = "attendees" ->
                [i \in 1..Len(updates["attendees"].l) |->
                    [email |-> updates["attendees"].l[i]]]
          [] OTHER -> updates[k]]

\* A client that would patch whatever the body holds.
not_event_body_unchecked(body) == FALSE

\* if not event_body
not_event_body(body) == DOMAIN body = {}

NotFound(event_id) == Exc("ValueError", 0, <<"Evenement ", event_id, " non trouve.">>)

core_update_event(args, c, fe) ==
    LET body == event_body(args.updates)
        \* the fetch failed: a 404 becomes ValueError, the rest is re-raised
        fetch_failed ==
            {IF e.out.exc.cls = "HttpError" /\ e.out.exc.status = 404
             THEN [e EXCEPT !.out = Raise(NotFound(args.event_id))]
             ELSE e : e \in CalendarFailures("events.get", EventStatuses(c), c, fe)}
        got == <<ReqOk("events.get")>>
        fetch_ok ==
            IF ~c.exists THEN {}
            ELSE IF not_event_body(body)
            THEN {Exec(Ret(c.event), got, c, c.event)}
            ELSE {[e EXCEPT !.reqs = got \o @] :
                      e \in CalendarFailures("events.patch", EventStatuses(c), c, c.event)}
                 \cup {Exec(Ret(Patched(c.event, body)),
                            got \o <<ReqOk("events.patch")>>,
                            [c EXCEPT !.event = Patched(c.event, body)], c.event)}
    IN  ServiceFailures(c, fe) \cup fetch_failed \cup fetch_ok

\* A client that would re-raise the 404 like any other HTTP error.
core_delete_event_reraising(args, c, fe) ==
    ServiceFailures(c, fe)
    \cup CalendarFailures("events.delete", EventStatuses(c), c, fe)
    \cup (IF c.exists
          THEN {Exec(Ret(PyBool(TRUE)), <<ReqOk("events.delete")>>, NoEvents, fe)}
          ELSE {})

core_delete_event(args, c, fe) ==
    LET failed ==
            {IF e.out.exc.cls = "HttpError" /\ e.out.exc.status = 404
             THEN [e EXCEPT !.out = Ret(PyBool(FALSE))]
             ELSE e : e \in CalendarFailures("events.delete", EventStatuses(c), c, fe)}
        deleted ==
            IF c.exists
            THEN {Exec(Ret(PyBool(TRUE)), <<ReqOk("events.delete")>>, NoEvents, fe)}
            ELSE {}
    IN  ServiceFailures(c, fe) \cup failed \cup deleted

(***************************************************************************)
(* Exceptions: the classes raised in the model and what an except clause   *)
(* catches.  Every class derives from Exception.                           *)
(***************************************************************************)
Text(tokens) == PyStr(tokens)
Escaped(e) == [t |-> "raised", exc |-> e]

Bases(cls) ==
    {cls, "Exception"}
    \cup (IF cls \in {"HTTPError", "ConnectionError", "Timeout"}
          THEN {"RequestException"} ELSE {})
    \cup (IF cls = "JSONDecodeError" THEN {"ValueError"} ELSE {})
    \cup (IF cls = "YouTubeAPIError" THEN {"YouTubeError"} ELSE {})
    \cup (IF cls = "SMTPAuthenticationError" THEN {"SMTPException"} ELSE {})

\* except base as e
Catches(base, e) == base \in Bases(e.cls)

\* str(v) of a value that is a string or None
Str(v) == IF v = PyNone THEN <<"None">> ELSE v.s

(***************************************************************************)
(* src/communication/core.py: the WhatsApp relay client.  ConnectionError  *)
(* stands for requests.ConnectionError and requests.Timeout alike.         *)
(***************************************************************************)
HTTPError(status) == Exc("HTTPError", status, <<"HTTPError ", ToString(status)>>)
ConnectionError == Exc("ConnectionError", 0, <<"connection failed">>)
JSONDecodeError == Exc("JSONDecodeError", 0, <<"Expecting value">>)

\* requests.get/post followed by resp.raise_for_status(): the failures
RelayFailures(name, statuses) ==
    {[out |-> Raise(HTTPError(s)), reqs |-> <<Req(name, s)>>] : s \in statuses}
    \cup {[out |-> Raise(ConnectionError), reqs |-> <<ReqNet(name)>>]}

\* f"{phone}@c.us"
c_us(phone) == PyStr(phone.s \o <<"@c.us">>)

ContactId == PyStr(<<"contact-1">>)

\* get_contact_id: every exception of the lookup ends in the fallback id
\* answers: what the relay may answer (200 with a contact, 204 standing for
\* 200 with no contact, an error status; no answer at all is always possible)
\* A lookup without its try/except: the failures of the request propagate.
get_contact_id_raising(phone, answers) ==
    {[out |-> Ret([t |-> "str", s |-> <<"contact-1">>]),
      reqs |-> <<Req("GET /contacts", 200)>>] : a \in answers \cap {200}}
    \cup {[out |-> Ret([t |-> "str", s |-> phone.s \o <<"@c.us">>]),
           reqs |-> <<Req("GET /contacts", 204)>>] : a \in answers \cap {204}}
    \cup {[out |-> Raise(HTTPError(st)), reqs |-> <<Req("GET /contacts", st)>>] :
              st \in answers \ {200, 204}}
    \cup {[out |-> Raise(ConnectionError), reqs |-> <<Req("GET /contacts", 0)>>]}

get_contact_id(phone, answers) ==
    {[out |-> Ret(ContactId), reqs |-> <<ReqOk("GET /contacts")>>] : a \in answers \cap {200}}
    \cup {[out |-> Ret(c_us(phone)), reqs |-> <<Req("GET /contacts", 204)>>] :
              a \in answers \cap {204}}
    \cup {[e EXCEPT !.out = Ret(c_us(phone))] :
              e \in RelayFailures("GET /contacts", answers \ {200, 204})}

ChatCreated == PyDict([chat_id |-> PyStr(<<"chat-1">>)])
MessageSent == PyDict([id |-> PyStr(<<"msg-1">>)])
EmptyJson == PyDict([k \in {} |-> PyNone])

\* requests.post, raise_for_status, resp.json()
Post(name, created) ==
    RelayFailures(name, RelayStatuses)
    \cup {[out |-> Raise(JSONDecodeError), reqs |-> <<ReqOk(name)>>],
          [out |-> Ret(created), reqs |-> <<ReqOk(name)>>],
          [out |-> Ret(EmptyJson), reqs |-> <<ReqOk(name)>>]}

RelayFrame(func) == NewFrame(func, "communication", DefaultMaxRetries, DefaultDelay)

\* The sleep of the round that took f to g, if it slept.
SleepOf(f, g) ==
    IF Len(g.sleeps) > Len(f.sleeps) THEN <<Slept(g.sleeps[Len(g.sleeps)])>> ELSE <<>>

\* What the relay may answer to the lookup made inside send_message.  A call
\* made through the tool meets a relay that knows the contact; a call whose
\* arguments name a relay meets the answer named (no contact, a status that
\* is not retried, one that is) or no answer at all.
UnknownContact == {204, 400, 500}

LookupAnswers(args) == IF "relay" \in DOMAIN args THEN args.relay ELSE {200}

\* self.get_contact_id(phone) is itself wrapped by with_retry(): the complete
\* runs of that wrapper from frame f, each with the frame it ends in.
RECURSIVE wrapped_get_contact_id(_, _, _)
wrapped_get_contact_id(f, phone, answers) ==
    UNION {LET g == communication_wrapper(f, e.out)
           IN  IF g.state = "running"
               THEN {[r EXCEPT !.reqs = e.reqs \o SleepOf(f, g) \o @] :
                        r \in wrapped_get_contact_id(g, phone, answers)}
               ELSE {[f |-> g, reqs |-> e.reqs]} :
           e \in get_contact_id(phone, answers)}

send_message(args) ==
    UNION {IF lookup.f.state = "raised"
           THEN {[out |-> Raise(lookup.f.exc), reqs |-> lookup.reqs]}
           ELSE {[e EXCEPT !.reqs = lookup.reqs \o @] :
                    e \in Post("POST /chats", ChatCreated)} :
           lookup \in wrapped_get_contact_id(RelayFrame("get_contact_id"), args.phone,
                                             LookupAnswers(args))}

send_message_to_existing_chat(args) == Post("POST /chats/{chat_id}/messages", MessageSent)

\* get_whatsapp_client(): if not api_key or not dsn: raise ValueError
get_whatsapp_client(config) ==
    IF ~config.unipile
    THEN Raise(Exc("ValueError", 0, <<"Configuration Unipile incomplete.">>))
    ELSE Ret(PyStr(<<"UniPileWhatsAppClient">>))

(***************************************************************************)
(* format_phone_number, on strings as sequences of characters              *)
(***************************************************************************)
Digits == {"0", "1", "2", "3", "4", "5", "6", "7", "8", "9"}
Whitespace == {" "}

RECURSIVE lstrip(_)
lstrip(s) == IF s # <<>> /\ Head(s) \in Whitespace THEN lstrip(Tail(s)) ELSE s

RECURSIVE rstrip(_)
rstrip(s) ==
    IF s # <<>> /\ s[Len(s)] \in Whitespace THEN rstrip(SubSeq(s, 1, Len(s) - 1)) ELSE s

strip(s) == rstrip(lstrip(s))

\* s.replace(char, "")
replace(s, char) == SelectSeq(s, LAMBDA c : c # char)

\* for char in chars: cleaned = cleaned.replace(char, "")
RECURSIVE replace_each(_, _)
replace_each(s, chars) ==
    IF chars = <<>> THEN s ELSE replace_each(replace(s, Head(chars)), Tail(chars))

\* s.split(sep)[-1]
RECURSIVE split_last(_, _)
split_last(s, sep) ==
    IF \E i \in 1..Len(s) : s[i] = sep
    THEN LET i == CHOOSE j \in 1..Len(s) : s[j] = sep /\ \A k \in 1..(j - 1) : s[k] # sep
         IN  split_last(SubSeq(s, i + 1, Len(s)), sep)
    ELSE s

Contains(s, c) == \E i \in 1..Len(s) : s[i] = c

\* A normalizer that would keep a leading "00".
format_phone_number_keeping_00(phone_number) ==
    IF phone_number = <<>> THEN <<>>
    ELSE LET stripped == strip(phone_number)
             removed == replace_each(stripped, <<" ", "-", "(", ")", ".", "/", "\\", ":">>)
             unplussed == IF removed # <<>> /\ Head(removed) = "+" THEN Tail(removed)
                          ELSE removed
         IN  SelectSeq(unplussed, LAMBDA ch : ch \in Digits)

\* A normalizer that would not discard what is left of the non-digits.
format_phone_number_unfiltered(phone_number) ==
    IF phone_number = <<>> THEN <<>>
    ELSE LET stripped == strip(phone_number)
             removed == replace_each(stripped, <<" ", "-", "(", ")", ".", "/", "\\", ":">>)
             unplussed == IF removed # <<>> /\ Head(removed) = "+" THEN Tail(removed)
                          ELSE removed
         IN  IF Len(unplussed) >= 2 /\ SubSeq(unplussed, 1, 2) = <<"0", "0">>
             THEN SubSeq(unplussed, 3, Len(unplussed))
             ELSE unplussed

format_phone_number(phone_number) ==
    IF phone_number = <<>> THEN <<>>
    ELSE LET stripped == strip(phone_number)
             removed == replace_each(stripped, <<" ", "-", "(", ")", ".", "/", "\\", ":">>)
             cleaned == IF Contains(removed, ":") THEN strip(split_last(removed, ":"))
                        ELSE removed
             unplussed == IF cleaned # <<>> /\ Head(cleaned) = "+" THEN Tail(cleaned)
                          ELSE cleaned
             digits == SelectSeq(unplussed, LAMBDA ch : ch \in Digits)
         IN  IF Len(digits) >= 2 /\ SubSeq(digits, 1, 2) = <<"0", "0">>
             THEN SubSeq(digits, 3, Len(digits))
             ELSE digits

(***************************************************************************)
(* src/communication/core.py: the e-mail client.  An SMTP or IMAP step is  *)
(* logged with 200 when it went through, 0 when the connection failed and  *)
(* the server's refusal code otherwise.                                    *)
(***************************************************************************)
MaxMsgs == 2

EmailFrame(func) == NewFrame(func, "communication", EmailMaxRetries, EmailDelay)

\* get_email_client(): if not all([...]): raise ValueError
get_email_client(config) ==
    IF ~config.email
    THEN Raise(Exc("ValueError", 0, <<"Configuration email (SMTP/IMAP) incomplete.">>))
    ELSE Ret(PyStr(<<"EmailClient">>))

SendFailure(msg) == PyDict([success |-> FALSE, error |-> msg])

\* cc or [], len(attachments) if attachments else 0
OrEmpty(v) == IF v = PyNone THEN <<>> ELSE v.l

SendSuccess(args) ==
    PyDict([success |-> TRUE, to |-> args.to.l, cc |-> OrEmpty(args.cc),
            bcc |-> OrEmpty(args.bcc), subject |-> args.subject,
            attachment_count |-> Len(OrEmpty(args.attachments))])

\* ", ".join(addresses)
RECURSIVE join(_, _)
join(sep, items) ==
    IF items = <<>> THEN <<>>
    ELSE IF Len(items) = 1 THEN <<items[1]>>
    ELSE <<items[1], sep>> \o join(sep, Tail(items))

Sender == <<"me@x.org">>

\* A client that would also write the blind copies into a header.
headers_with_bcc(args) ==
    [h \in {"From", "To", "Subject"}
            \cup (IF OrEmpty(args.cc) # <<>> THEN {"Cc"} ELSE {})
            \cup (IF OrEmpty(args.bcc) # <<>> THEN {"Bcc"} ELSE {}) |->
        CASE h = "From" -> Sender
          [] h = "To" -> join(", ", args.to.l)
          [] h = "Subject" -> args.subject.s
          [] h = "Cc" -> join(", ", args.cc.l)
          [] h = "Bcc" -> join(", ", args.bcc.l)]

\* msg["From"], msg["To"], msg["Subject"] and, if cc, msg["Cc"]
headers(args) ==
    [h \in {"From", "To", "Subject"} \cup (IF OrEmpty(args.cc) # <<>> THEN {"Cc"} ELSE {}) |->
        CASE h = "From" -> Sender
          [] h = "To" -> join(", ", args.to.l)
          [] h = "Subject" -> args.subject.s
          [] h = "Cc" -> join(", ", args.cc.l)]

\* all_recipients = list(to), extended by cc and by bcc when given
all_recipients(args) == args.to.l \o OrEmpty(args.cc) \o OrEmpty(args.bcc)

\* The message handed to the session: headers, the body part, then one part
\* for every attachment that was read.
Message(args, attached) ==
    [headers |-> headers(args), body |-> args.body.s, attachments |-> attached]

\* server.send_message(msg, from_addr, to_addrs) answered with status
Submit(status, msg, to_addrs) ==
    [ev |-> "req", x |-> "SMTP send_message", n |-> status,
     msg |-> msg, to_addrs |-> to_addrs]

\* A loop that would give up the attachments at the first file it cannot use.
RECURSIVE attach_until_missing(_)
attach_until_missing(paths) ==
    IF paths = <<>> THEN {[reqs |-> <<>>, attached |-> <<>>]}
    ELSE {[reqs |-> <<Failed("os.path.exists")>>, attached |-> <<>>],
          [reqs |-> <<Failed("open")>>, attached |-> <<>>]}
         \cup {[reqs |-> <<Did("attach")>> \o rest.reqs,
                attached |-> <<Head(paths)>> \o rest.attached] :
               rest \in attach_until_missing(Tail(paths))}

\* The attachment loop: a path that does not exist is skipped, one that
\* exists is read and attached, or skipped when reading it fails.  Each run:
\* what was looked at and the paths attached, in order.
RECURSIVE attach(_)
attach(paths) ==
    IF paths = <<>> THEN {[reqs |-> <<>>, attached |-> <<>>]}
    ELSE UNION {{[reqs |-> <<Failed("os.path.exists")>> \o rest.reqs,
                  attached |-> rest.attached],
                 [reqs |-> <<Failed("open")>> \o rest.reqs,
                  attached |-> rest.attached],
                 [reqs |-> <<Did("attach")>> \o rest.reqs,
                  attached |-> <<Head(paths)>> \o rest.attached]} :
                rest \in attach(Tail(paths))}

\* An SMTP session that a refused login leaves open.
smtp_session_left_open(args, attached) ==
    {[out |-> Ret([t |-> "dict", d |-> [success |-> FALSE,
                                        error |-> <<"Erreur SMTP lors de l'envoi: ",
                                                    "connection failed">>]]),
      reqs |-> <<Req("SMTP connect", 0)>>],
     [out |-> Ret([t |-> "dict", d |-> [success |-> FALSE,
                                        error |-> <<"Authentification SMTP echouee">>]]),
      reqs |-> <<Req("SMTP connect", 200), Req("SMTP login", 535)>>],
     [out |-> Ret([t |-> "dict", d |-> [success |-> TRUE]]),
      reqs |-> <<Req("SMTP connect", 200), Req("SMTP login", 200),
                 [ev |-> "req", x |-> "SMTP send_message", n |-> 200,
                  msg |-> <<>>, to_addrs |-> args.to.l],
                 [ev |-> "did", x |-> "SMTP quit", n |-> 0]>>]}

\* The SMTP session inside try: every exception is caught and turned into a
\* failure result; the with block closes the session it opened.
smtp_session(args, attached) ==
    LET msg == Message(args, attached)
        to_addrs == all_recipients(args)
    IN  {[out |-> Ret(SendFailure(<<"Erreur SMTP lors de l'envoi: ", "connection failed">>)),
          reqs |-> <<ReqNet("SMTP connect")>>],
         [out |-> Ret(SendFailure(<<"Authentification SMTP echouee">>)),
          reqs |-> <<ReqOk("SMTP connect"), Req("SMTP login", 535), Did("SMTP quit")>>],
         [out |-> Ret(SendFailure(<<"Erreur SMTP lors de l'envoi: ", "connection lost">>)),
          reqs |-> <<ReqOk("SMTP connect"), ReqOk("SMTP login"),
                     Submit(0, msg, to_addrs), Did("SMTP quit")>>],
         [out |-> Ret(SendFailure(<<"Erreur SMTP lors de l'envoi: ", "recipients refused">>)),
          reqs |-> <<ReqOk("SMTP connect"), ReqOk("SMTP login"),
                     Submit(550, msg, to_addrs), Did("SMTP quit")>>],
         [out |-> Ret(SendSuccess(args)),
          reqs |-> <<ReqOk("SMTP connect"), ReqOk("SMTP login"),
                     Submit(200, msg, to_addrs), Did("SMTP quit")>>]}

\* A client that would start the send whatever the To list.
send_email_unguarded(args) ==
    UNION {{[e EXCEPT !.reqs = files.reqs \o @] : e \in smtp_session(args, files.attached)} :
           files \in attach(OrEmpty(args.attachments))}

send_email(args) ==
    IF args.to.l = <<>>
    THEN {[out |-> Ret(SendFailure(<<"Aucun destinataire specifie">>)), reqs |-> <<>>]}
    ELSE UNION {{[e EXCEPT !.reqs = files.reqs \o @] :
                    e \in smtp_session(args, files.attached)} :
                files \in attach(OrEmpty(args.attachments))}

\* A part of a received message (email.message.Message): its content type,
\* its subparts when it is a multipart, the text it carries, the number of
\* its header fields, and whether Python knows the charset it declares.
Part(type, content, n_headers, charset_known) ==
    [type |-> type, parts |-> <<>>, content |-> content,
     n_headers |-> n_headers, charset_known |-> charset_known]

Multipart(parts) ==
    [type |-> "multipart/mixed", parts |-> parts, content |-> <<>>,
     n_headers |-> 1, charset_known |-> TRUE]

\* msg_part.is_multipart()
is_multipart(part) == part.parts # <<>>

\* msg_part.walk(): the part, then the walk of each of its subparts
RECURSIVE walk(_)
walk(part) ==
    LET RECURSIVE each(_)
        each(parts) == IF parts = <<>> THEN <<>>
                       ELSE walk(Head(parts)) \o each(Tail(parts))
    IN  <<part>> \o each(part.parts)

\* bool(part): Message defines __len__ as the number of its header fields
truthy(part) == part # PyNone /\ part.n_headers > 0

\* payload.decode(charset, 'replace'); an unknown charset raises LookupError,
\* which is caught and leaves body_content empty
decoded(part) == IF part.charset_known THEN part.content ELSE <<>>

\* The for loop over walk(): html_part is the first text/html part, at which
\* the loop breaks; plain_part the last text/plain part met until then.
selected_parts(parts) ==
    LET htmls == {i \in 1..Len(parts) : parts[i].type = "text/html"}
        stop == IF htmls = {} THEN Len(parts) + 1
                ELSE CHOOSE i \in htmls : \A j \in htmls : i <= j
        plains == {i \in 1..(stop - 1) : parts[i].type = "text/plain"}
    IN  [html_part |-> IF htmls = {} THEN PyNone ELSE parts[stop],
         plain_part |-> IF plains = {} THEN PyNone
                        ELSE parts[CHOOSE i \in plains : \A j \in plains : j <= i]]

get_email_body(msg_part) ==
    IF is_multipart(msg_part)
    THEN LET found == selected_parts(walk(msg_part))
             \* html_part or plain_part
             target_part == IF truthy(found.html_part) THEN found.html_part
                            ELSE found.plain_part
         IN  IF truthy(target_part) THEN decoded(target_part) ELSE <<>>
    ELSE IF msg_part.type \in {"text/plain", "text/html"}
    THEN decoded(msg_part)
    ELSE <<>>

\* msg_ids.reverse()
RECURSIVE reverse(_)
reverse(s) == IF s = <<>> THEN <<>> ELSE Append(reverse(Tail(s)), Head(s))

\* s[:limit]
slice_to(s, limit) ==
    IF limit >= 0 THEN SubSeq(s, 1, IF limit < Len(s) THEN limit ELSE Len(s))
    ELSE SubSeq(s, 1, IF Len(s) + limit > 0 THEN Len(s) + limit ELSE 0)

\* The fetch loop over the selected ids: a message that cannot be fetched
\* or processed is skipped.  Each run: the requests and the records kept.
\* imap.fetch(msg_id, "(RFC822)") and its answer: OK (200), another status
\* (400), or an exception of the fetch or of the processing (0)
Fetch(msg_id, status) == [ev |-> "req", x |-> "IMAP fetch", n |-> status, id |-> msg_id]

\* A fetch loop that the first failure ends.
RECURSIVE fetch_each_until_failure(_)
fetch_each_until_failure(ids) ==
    IF ids = <<>> THEN {[reqs |-> <<>>, emails |-> <<>>]}
    ELSE {[reqs |-> <<Fetch(Head(ids), 400)>>, emails |-> <<>>],
          [reqs |-> <<Fetch(Head(ids), 0)>>, emails |-> <<>>]}
         \cup {[reqs |-> <<Fetch(Head(ids), 200)>> \o rest.reqs,
                emails |-> <<[id |-> Head(ids)]>> \o rest.emails] :
               rest \in fetch_each_until_failure(Tail(ids))}

RECURSIVE fetch_each(_)
fetch_each(ids) ==
    IF ids = <<>> THEN {[reqs |-> <<>>, emails |-> <<>>]}
    ELSE UNION {{[reqs |-> <<Fetch(Head(ids), 200)>> \o rest.reqs,
                  emails |-> <<[id |-> Head(ids)]>> \o rest.emails],
                 [reqs |-> <<Fetch(Head(ids), 400)>> \o rest.reqs,
                  emails |-> rest.emails],
                 [reqs |-> <<Fetch(Head(ids), 0)>> \o rest.reqs,
                  emails |-> rest.emails]} :
                rest \in fetch_each(Tail(ids))}

\* retrieve_emails: every exception of the session is caught and an empty
\* list returned; mailbox is the answer of the search, oldest first.
retrieve_emails(args, mailbox) ==
    LET opened == <<ReqOk("IMAP connect"), ReqOk("IMAP login")>>
        closed == <<Did("IMAP logout")>>
        empty == Ret(PyList(<<>>))
    IN  {[out |-> empty, reqs |-> <<ReqNet("IMAP connect")>>],
         [out |-> empty, reqs |-> <<ReqOk("IMAP connect"), Req("IMAP login", 401)>> \o closed],
         [out |-> empty, reqs |-> opened \o <<Req("IMAP select", 404)>> \o closed],
         [out |-> empty, reqs |-> opened \o <<ReqNet("IMAP select")>> \o closed],
         [out |-> empty,
          reqs |-> opened \o <<ReqOk("IMAP select"), Req("IMAP search", 400)>> \o closed],
         [out |-> empty,
          reqs |-> opened \o <<ReqOk("IMAP select"), ReqNet("IMAP search")>> \o closed]}
        \cup {[out |-> Ret(PyList(r.emails)),
               reqs |-> opened \o <<ReqOk("IMAP select"),
                                     Answered("IMAP search", PyList(mailbox))>>
                        \o r.reqs \o closed] :
              r \in fetch_each(slice_to(reverse(mailbox), args.limit))}

Mailboxes == {[i \in 1..n |-> i] : n \in 0..MaxMsgs}

(***************************************************************************)
(* src/youtube: texts and URLs are sequences of tokens; the tokens "v=",   *)
(* "&", "youtu.be/" and the two URL heads are the substrings the code      *)
(* looks for.                                                              *)
(***************************************************************************)
StartsWith(s, prefix) == Len(s) >= Len(prefix) /\ SubSeq(s, 1, Len(prefix)) = prefix

\* s.split(sep), sep one token
RECURSIVE split(_, _)
split(s, sep) ==
    IF \E i \in 1..Len(s) : s[i] = sep
    THEN LET i == CHOOSE j \in 1..Len(s) : s[j] = sep /\ \A k \in 1..(j - 1) : s[k] # sep
         IN  <<SubSeq(s, 1, i - 1)>> \o split(SubSeq(s, i + 1, Len(s)), sep)
    ELSE <<s>>

WatchHead == <<"https://www.youtube.com/watch?", "v=">>
ShortHead == <<"https://", "youtu.be/">>

YouTubeError(msg) == Exc("YouTubeError", 0, msg)
YouTubeAPIError(msg) == Exc("YouTubeAPIError", 0, msg)

\* extract_video_id recognizing the two shapes behind any beginning
extract_video_id_any_beginning(url) ==
    IF url = <<>> THEN Raise(Exc("YouTubeError", 0, <<"URL cannot be empty">>))
    ELSE IF \E i \in 1..Len(url) : url[i] = "v="
    THEN Ret(PyStr(split(split(url, "v=")[2], "&")[1]))
    ELSE IF \E i \in 1..Len(url) : url[i] = "youtu.be/"
    THEN Ret(PyStr(split(url, "youtu.be/")[2]))
    ELSE Ret(PyStr(url))

extract_video_id(url) ==
    IF url = <<>> THEN Raise(YouTubeError(<<"URL cannot be empty">>))
    ELSE IF StartsWith(url, WatchHead)
    THEN Ret(PyStr(split(split(url, "v=")[2], "&")[1]))
    ELSE IF StartsWith(url, ShortHead)
    THEN Ret(PyStr(split(url, "youtu.be/")[2]))
    ELSE Ret(PyStr(url))

\* " ".join([segment["text"] for segment in transcript_data]); a segment
\* without "text" raises KeyError
RECURSIVE join_texts(_)
join_texts(segments) ==
    IF Len(segments) = 1 THEN <<segments[1].text>>
    ELSE <<segments[1].text, " ">> \o join_texts(Tail(segments))

format_transcript(transcript_data) ==
    IF transcript_data = <<>> THEN Ret(PyStr(<<>>))
    ELSE IF \E i \in 1..Len(transcript_data) : "text" \notin DOMAIN transcript_data[i]
    THEN Raise(Exc("KeyError", 0, <<"'text'">>))
    ELSE Ret(PyStr(join_texts(transcript_data)))

\* What the caption service may send back with a 200.
Captions ==
    {[k \in {} |-> PyNone],
     [subtitles |-> <<>>],
     [subtitles |-> <<[text |-> "hello"], [text |-> "world"]>>],
     [subtitles |-> <<[text |-> "Erreur"], [text |-> "humaine"]>>],
     [subtitles |-> <<[start |-> "0"]>>]}

TranscriptStatuses == {403, 404, 500}

\* A client whose request would go through a retry wrapper.
make_api_request_wrapped(endpoint) ==
    {[out |-> Raise(YouTubeAPIError(<<"API request failed: ", "connection failed">>)),
      reqs |-> <<ReqNet(endpoint), Slept(DefaultDelay), ReqNet(endpoint)>>],
     [out |-> Ret(PyDict([subtitles |-> <<[text |-> "hello"]>>])),
      reqs |-> <<Req(endpoint, 500), Slept(DefaultDelay), ReqOk(endpoint)>>]}

\* _make_api_request: one requests.get, no decorator.  A body that is not
\* JSON raises a RequestException in recent requests and a plain ValueError
\* in older ones.
make_api_request(endpoint) ==
    {[out |-> Raise(YouTubeAPIError(<<"API request failed: ", "connection failed">>)),
      reqs |-> <<ReqNet(endpoint)>>]}
    \cup {[out |-> Raise(YouTubeAPIError(<<"API request failed with status code: ",
                                          ToString(st)>>)),
           reqs |-> <<Req(endpoint, st)>>] : st \in TranscriptStatuses}
    \cup {[out |-> Raise(YouTubeAPIError(<<"API request failed: ", "Expecting value">>)),
           reqs |-> <<ReqOk(endpoint)>>],
          [out |-> Raise(JSONDecodeError), reqs |-> <<ReqOk(endpoint)>>]}
    \cup {[out |-> Ret(PyDict(data)), reqs |-> <<Answered(endpoint, PyDict(data))>>] :
             data \in Captions}

\* get_transcript's except clauses, in order
get_transcript_except(e) ==
    IF Catches("YouTubeError", e) THEN PyStr(<<"Erreur: ">> \o e.msg)
    ELSE IF Catches("YouTubeAPIError", e) THEN PyStr(<<"Erreur API: ">> \o e.msg)
    ELSE PyStr(<<"Erreur inattendue: ">> \o e.msg)

get_transcript(video_url) ==
    LET video_id == extract_video_id(video_url)
    IN  IF video_id.kind = "exc"
        THEN {[out |-> Ret(get_transcript_except(video_id.exc)), reqs |-> <<>>]}
        ELSE {LET data == r.out.val.d
                  transcript == format_transcript(data["subtitles"])
              IN  IF r.out.kind = "exc"
                  THEN [r EXCEPT !.out = Ret(get_transcript_except(r.out.exc))]
                  ELSE IF "subtitles" \notin DOMAIN data \/ data["subtitles"] = <<>>
                  THEN [r EXCEPT !.out =
                            Ret(PyStr(<<"Aucune transcription disponible pour cette video">>))]
                  ELSE IF transcript.kind = "exc"
                  THEN [r EXCEPT !.out = Ret(get_transcript_except(transcript.exc))]
                  ELSE [r EXCEPT !.out = transcript] :
              r \in make_api_request("video/subtitles")}

TranscriptResponse(success, transcript, error) ==
    [t |-> "TranscriptResponse", success |-> success,
     transcript |-> transcript, error |-> error]

\* transcript.startswith("Erreur"): the tokens that begin with these letters
startswith_Erreur(text) ==
    text # <<>> /\ text[1] \in {"Erreur", "Erreur: ", "Erreur API: ", "Erreur inattendue: "}

get_video_transcript_result(out) ==
    IF out.kind = "ret"
    THEN IF startswith_Erreur(out.val.s)
         THEN TranscriptResponse(FALSE, PyNone, out.val)
         ELSE TranscriptResponse(TRUE, out.val, PyNone)
    ELSE IF Catches("YouTubeError", out.exc) \/ Catches("YouTubeAPIError", out.exc)
    THEN TranscriptResponse(FALSE, PyNone, PyStr(out.exc.msg))
    ELSE IF Catches("Exception", out.exc)
    THEN TranscriptResponse(FALSE, PyNone, PyStr(<<"Erreur inattendue: ">> \o out.exc.msg))
    ELSE Escaped(out.exc)

(***************************************************************************)
(* src/calendar/tool.py: what each tool hands back for the outcome f of    *)
(* its wrapped call.  Every class raised here derives from Exception.      *)
(***************************************************************************)
lister_evenements_calendrier_result(args, f) ==
    IF f.state = "returned"
    THEN IF f.val.l = <<>>
         THEN Text(<<"Aucun evenement a venir trouve.">>)
         ELSE Text(<<"Prochains evenements (", ToString(Len(f.val.l)), "):">>
                   \o Str(f.val.l[1].summary) \o <<"ID: ", f.val.l[1].id>>)
    ELSE IF Catches("Exception", f.exc)
    THEN Text(<<"Erreur lors de la recuperation des evenements: ">> \o f.exc.msg)
    ELSE Escaped(f.exc)

creer_evenement_calendrier_result(args, f) ==
    IF f.state = "returned"
    THEN Text(<<"Evenement '">> \o Str(f.val.summary)
              \o <<"' cree avec succes. ID: ", f.val.id>>)
    ELSE IF Catches("Exception", f.exc)
    THEN Text(<<"Erreur lors de la creation de l'evenement: ">> \o f.exc.msg)
    ELSE Escaped(f.exc)

\* updates = {k: v for k, v in {...}.items() if v is not None}
tool_updates(params) ==
    [k \in {x \in DOMAIN params : params[x] # PyNone} |-> params[k]]

mettre_a_jour_evenement_calendrier_result(args, f) ==
    IF f.state = "returned"
    THEN Text(<<"Evenement '">> \o Str(f.val.summary) \o <<"' (ID: ", args.event_id,
                ") mis a jour avec succes.">>)
    ELSE IF Catches("ValueError", f.exc)
    THEN Text(f.exc.msg)
    ELSE IF Catches("Exception", f.exc)
    THEN Text(<<"Erreur lors de la mise a jour de l'evenement ", args.event_id, ": ">>
              \o f.exc.msg)
    ELSE Escaped(f.exc)

supprimer_evenement_calendrier_result(args, f) ==
    IF f.state = "returned"
    THEN IF f.val.b
         THEN Text(<<"Evenement ", args.event_id, " supprime avec succes.">>)
         ELSE Text(<<"Evenement ", args.event_id, " non trouve ou deja supprime.">>)
    ELSE IF Catches("Exception", f.exc)
    THEN Text(<<"Erreur lors de la suppression de l'evenement ", args.event_id, ": ">>
              \o f.exc.msg)
    ELSE Escaped(f.exc)

\* A caller of the client function itself sees the wrapper's outcome.
direct_result(args, f) ==
    IF f.state = "returned" THEN f.val ELSE Escaped(f.exc)

(***************************************************************************)
(* src/communication/tool.py                                               *)
(***************************************************************************)
\* result.get(key) of a dict
Get(dict, key) == IF key \in DOMAIN dict.d THEN dict.d[key] ELSE PyNone

\* A tool that would catch configuration errors only.
envoyer_message_whatsapp_except_ValueError(args, e) ==
    IF Catches("ValueError", e)
    THEN Text(<<"Erreur de configuration WhatsApp: ">> \o e.msg)
    ELSE Escaped(e)

envoyer_message_whatsapp_except(args, e) ==
    IF Catches("ValueError", e)
    THEN Text(<<"Erreur de configuration WhatsApp: ">> \o e.msg)
    ELSE IF Catches("Exception", e)
    THEN Text(<<"Erreur lors de l'envoi du message WhatsApp: ">> \o e.msg)
    ELSE Escaped(e)

envoyer_message_whatsapp_result(args, f) ==
    IF f.state = "returned"
    THEN IF Get(f.val, "chat_id") # PyNone
         THEN Text(<<"Message WhatsApp envoye a ">> \o args.phone.s
                   \o <<". ID du Chat: ">> \o Get(f.val, "chat_id").s)
         ELSE Text(<<"Message WhatsApp envoye, mais aucun ID de chat retourne.">>)
    ELSE envoyer_message_whatsapp_except(args, f.exc)

repondre_chat_whatsapp_except(args, e) ==
    IF Catches("ValueError", e)
    THEN Text(<<"Erreur de configuration WhatsApp: ">> \o e.msg)
    ELSE IF Catches("Exception", e)
    THEN Text(<<"Erreur lors de la reponse au chat WhatsApp: ">> \o e.msg)
    ELSE Escaped(e)

repondre_chat_whatsapp_result(args, f) ==
    IF f.state = "returned"
    THEN IF Get(f.val, "id") # PyNone
         THEN Text(<<"Reponse envoyee au chat WhatsApp ">> \o args.chat_id.s
                   \o <<". ID du Message: ">> \o Get(f.val, "id").s)
         ELSE Text(<<"Reponse WhatsApp envoyee, mais aucun ID de message retourne.">>)
    ELSE repondre_chat_whatsapp_except(args, f.exc)

envoyer_email_except(args, e) ==
    IF Catches("ValueError", e)
    THEN Text(<<"Erreur de configuration Email: ">> \o e.msg)
    ELSE IF Catches("Exception", e)
    THEN Text(<<"Erreur lors de l'envoi de l'email: ">> \o e.msg)
    ELSE Escaped(e)

envoyer_email_result(args, f) ==
    IF f.state = "returned"
    THEN IF f.val.d.success
         THEN Text(<<"Email envoye a ",
                     ToString(Len(f.val.d.to \o f.val.d.cc \o f.val.d.bcc)),
                     " destinataire(s)">>
                   \o (IF f.val.d.attachment_count > 0
                       THEN <<" avec ", ToString(f.val.d.attachment_count),
                              " piece(s) jointe(s)">>
                       ELSE <<>>)
                   \o <<". Sujet: ">> \o args.subject.s)
         ELSE Text(<<"Echec de l'envoi de l'email: ">> \o f.val.d.error)
    ELSE envoyer_email_except(args, f.exc)

recuperer_emails_except(args, e) ==
    IF Catches("ValueError", e)
    THEN Text(<<"Erreur de configuration Email: ">> \o e.msg)
    ELSE IF Catches("Exception", e)
    THEN Text(<<"Erreur lors de la recuperation des emails: ">> \o e.msg)
    ELSE Escaped(e)

recuperer_emails_result(args, f) ==
    IF f.state = "returned"
    THEN IF f.val.l = <<>>
         THEN Text(<<"Aucun email trouve dans le dossier '", args.folder,
                     "' avec les criteres specifies.">>)
         ELSE Text(<<"Emails recuperes de '", args.folder, "' (",
                     ToString(Len(f.val.l)), "):">>
                   \o [i \in 1..Len(f.val.l) |-> ToString(f.val.l[i].id)])
    ELSE recuperer_emails_except(args, f.exc)

(***************************************************************************)
(* Inputs                                                                  *)
(***************************************************************************)
Retro == PyStr(<<"retro">>)
Guests == PyList(<<"a@x.org">>)
Slot == PyStr(<<"2024-07-01T10:00:00">>)
SlotEnd == PyStr(<<"2024-07-01T11:00:00">>)

\* The update tool's optional parameters.
UpdateParams ==
    [summary : {PyNone, Retro}, start_time : {PyNone}, end_time : {PyNone},
     description : {PyNone}, location : {PyNone},
     attendees : {PyNone, PyList(<<>>), Guests}]

\* updates mappings handed to core_update_event by a caller of its own.
EmptyUpdates == [k \in {} |-> PyNone]
CoreUpdates ==
    {EmptyUpdates,
     [attendees |-> PyNone],
     [color |-> PyStr(<<"red">>)],
     [color |-> PyStr(<<"red">>), attendees |-> PyNone],
     [summary |-> Retro, attendees |-> PyNone],
     [start_time |-> Slot, end_time |-> SlotEnd],
     [description |-> PyNone, location |-> PyNone]}

\* Phone numbers as typed, character by character.
Phones ==
    {<<>>,
     <<"a", "b", "c">>,
     <<"1", "2", ":", "3", "4">>,
     <<"+", "3", "3", " ", "6", " ", "1", "2", " ", "3", "4", " ", "5", "6">>}

\* The settings read by a tool: is the WhatsApp account id set, are the
\* relay's API key and DSN set, are the mail credentials complete.
WhatsAppConfigs == [account_id : BOOLEAN, unipile : BOOLEAN]
EmailConfigs == [email : BOOLEAN]

Recipient == PyList(<<"a@x.org">>)
Copy == PyList(<<"c@x.org">>)
Blind == PyList(<<"b@x.org">>)
Files == PyList(<<"/tmp/a.pdf", "/tmp/b.pdf">>)

\* Video URLs, token by token.
Urls ==
    {<<>>,
     <<"abc123">>,
     <<"https://www.youtube.com/watch?", "v=", "abc123", "&", "t=5">>,
     <<"https://", "youtu.be/", "abc123">>}

(***************************************************************************)
(* Actions                                                                 *)
(***************************************************************************)
NoDelete == [val |-> PyNone, clean |-> FALSE]

Idle == tpc = "idle"

\* A tool is entered and reaches its wrapped client call.
Enter(name, args, frame) ==
    /\ Idle
    /\ tool' = [name |-> name, args |-> args]
    /\ tpc' = "core"
    /\ tret' = PyNone
    /\ w' = frame
    /\ log' = <<>>
    /\ fetched' = PyNone
    /\ prev' = IF name = "supprimer_evenement_calendrier" THEN prev ELSE NoDelete
    /\ UNCHANGED cal

\* A tool is entered and returns before any client call.
Reject(name, args, result) ==
    /\ Idle
    /\ tool' = [name |-> name, args |-> args]
    /\ tpc' = "done"
    /\ tret' = result
    /\ w' = NoFrame
    /\ log' = <<>>
    /\ fetched' = PyNone
    /\ prev' = IF name = "supprimer_evenement_calendrier" THEN prev ELSE NoDelete
    /\ UNCHANGED cal

CalendarFrame(func) == NewFrame(func, "calendar", DefaultMaxRetries, DefaultDelay)

lister_evenements_calendrier ==
    /\ Enter("lister_evenements_calendrier", [count |-> 10, calendar_id |-> PyNone],
             CalendarFrame("core_list_events"))

creer_evenement_calendrier ==
    /\ \E attendees \in {PyNone, Guests} :
          Enter("creer_evenement_calendrier",
                [summary |-> PyStr(<<"standup">>),
                 start_time |-> Slot, end_time |-> SlotEnd,
                 description |-> PyNone, location |-> PyNone,
                 attendees |-> attendees, calendar_id |-> PyNone],
                CalendarFrame("core_create_event"))

mettre_a_jour_evenement_calendrier ==
    /\ \E params \in UpdateParams :
          LET updates == tool_updates(params)
              args == [event_id |-> "e1", calendar_id |-> PyNone, updates |-> updates]
          IN  IF DOMAIN updates = {}
              THEN Reject("mettre_a_jour_evenement_calendrier", args,
                          Text(<<"Aucune information de mise a jour fournie.">>))
              ELSE Enter("mettre_a_jour_evenement_calendrier", args,
                         CalendarFrame("core_update_event"))

supprimer_evenement_calendrier ==
    /\ Enter("supprimer_evenement_calendrier",
             [event_id |-> "e1", calendar_id |-> PyNone],
             CalendarFrame("core_delete_event"))

\* core_update_event called by a caller of its own, with any updates mapping.
call_core_update_event ==
    /\ \E updates \in CoreUpdates :
          Enter("core_update_event",
                [event_id |-> "e1", calendar_id |-> PyNone, updates |-> updates],
                CalendarFrame("core_update_event"))

\* A tool that would send to whatever the normalizer returned.
envoyer_message_whatsapp_unchecked ==
    /\ \E config \in WhatsAppConfigs, phone_number \in Phones, message \in {<<>>, <<"hi">>} :
          LET name == "envoyer_message_whatsapp"
              cleaned_phone == format_phone_number(phone_number)
              args == [phone_number |-> PyStr(phone_number), message |-> PyStr(message),
                       account_id |-> PyNone, phone |-> PyStr(cleaned_phone),
                       text |-> PyStr(message), settings |-> config]
              client == get_whatsapp_client(config)
          IN  IF ~config.account_id
              THEN Reject(name, args, Text(<<"Erreur: Aucun ID de compte WhatsApp ",
                                             "configure par defaut ou fourni.">>))
              ELSE IF phone_number = <<>> \/ message = <<>>
              THEN Reject(name, args, Text(<<"Erreur: Le numero de telephone et le ",
                                             "message sont requis.">>))
              ELSE IF client.kind = "exc"
              THEN Reject(name, args, envoyer_message_whatsapp_except(args, client.exc))
              ELSE Enter(name, args, RelayFrame("send_message"))

envoyer_message_whatsapp ==
    /\ \E config \in WhatsAppConfigs, phone_number \in Phones, message \in {<<>>, <<"hi">>} :
          LET name == "envoyer_message_whatsapp"
              cleaned_phone == format_phone_number(phone_number)
              args == [phone_number |-> PyStr(phone_number), message |-> PyStr(message),
                       account_id |-> PyNone, phone |-> PyStr(cleaned_phone),
                       text |-> PyStr(message), settings |-> config]
              client == get_whatsapp_client(config)
          IN  IF ~config.account_id
              THEN Reject(name, args, Text(<<"Erreur: Aucun ID de compte WhatsApp ",
                                             "configure par defaut ou fourni.">>))
              ELSE IF phone_number = <<>> \/ message = <<>>
              THEN Reject(name, args, Text(<<"Erreur: Le numero de telephone et le ",
                                             "message sont requis.">>))
              ELSE IF cleaned_phone = <<>> \/ Len(cleaned_phone) < 8
              THEN Reject(name, args,
                          Text(<<"Erreur: Numero de telephone '">> \o phone_number
                               \o <<"' invalide apres formatage: '">> \o cleaned_phone
                               \o <<"'.">>))
              ELSE IF client.kind = "exc"
              THEN Reject(name, args, envoyer_message_whatsapp_except(args, client.exc))
              ELSE Enter(name, args, RelayFrame("send_message"))

repondre_chat_whatsapp ==
    /\ \E config \in WhatsAppConfigs, chat_id \in {<<>>, <<"chat-1">>}, message \in {<<>>, <<"hi">>} :
          LET name == "repondre_chat_whatsapp"
              args == [chat_id |-> PyStr(chat_id), message |-> PyStr(message),
                       settings |-> config]
              client == get_whatsapp_client(config)
          IN  IF ~config.account_id
              THEN Reject(name, args, Text(<<"Erreur: Aucun ID de compte WhatsApp ",
                                             "configure par defaut.">>))
              ELSE IF chat_id = <<>> \/ message = <<>>
              THEN Reject(name, args, Text(<<"Erreur: L'ID du chat et le message ",
                                             "sont requis.">>))
              ELSE IF client.kind = "exc"
              THEN Reject(name, args, repondre_chat_whatsapp_except(args, client.exc))
              ELSE Enter(name, args, RelayFrame("send_message_to_existing_chat"))

envoyer_email ==
    /\ \E config \in EmailConfigs, to \in {PyList(<<>>), Recipient},
          subject \in {<<>>, <<"hello">>}, cc \in {PyNone, Copy}, bcc \in {PyNone, Blind},
          attachments \in {PyNone, Files} :
          LET name == "envoyer_email"
              args == [to |-> to, subject |-> PyStr(subject), body |-> PyStr(<<"text">>),
                       cc |-> cc, bcc |-> bcc, attachments |-> attachments,
                       settings |-> config]
              client == get_email_client(config)
          IN  IF to.l = <<>>
              THEN Reject(name, args,
                          Text(<<"Erreur: Au moins un destinataire (to) est requis.">>))
              ELSE IF subject = <<>>
              THEN Reject(name, args,
                          Text(<<"Erreur: Le sujet et le corps du message sont requis.">>))
              ELSE IF client.kind = "exc"
              THEN Reject(name, args, envoyer_email_except(args, client.exc))
              ELSE Enter(name, args, EmailFrame("send_email"))

recuperer_emails ==
    /\ \E config \in EmailConfigs, limit \in -1..MaxMsgs :
          LET name == "recuperer_emails"
              args == [folder |-> "INBOX", limit |-> limit, unread_only |-> FALSE,
                       search_query |-> PyNone, settings |-> config]
              client == get_email_client(config)
          IN  IF client.kind = "exc"
              THEN Reject(name, args, recuperer_emails_except(args, client.exc))
              ELSE Enter(name, args, EmailFrame("retrieve_emails"))

\* EmailClient.send_email called by a caller of its own.
call_send_email ==
    /\ \E to \in {PyList(<<>>), Recipient}, cc \in {PyNone, Copy}, bcc \in {PyNone, Blind},
          attachments \in {PyNone, Files} :
          Enter("send_email",
                [to |-> to, subject |-> PyStr(<<"hello">>), body |-> PyStr(<<"text">>),
                 cc |-> cc, bcc |-> bcc, attachments |-> attachments],
                EmailFrame("send_email"))

\* get_contact_id called by a caller of its own.
call_get_contact_id ==
    /\ Enter("get_contact_id", [phone |-> PyStr(<<"3", "3", "6">>)],
             RelayFrame("get_contact_id"))

\* send_message called by a caller of its own, for a number the relay has
\* no contact for.
call_send_message ==
    /\ \E answer \in UnknownContact :
          Enter("send_message",
                [phone |-> PyStr(<<"3", "3", "6">>), text |-> PyStr(<<"hello">>),
                 relay |-> {answer}],
                RelayFrame("send_message"))

\* The tool runs get_transcript, which issues its one request, and returns.
get_video_transcript ==
    /\ Idle
    /\ \E url \in Urls : \E r \in get_transcript(url) :
          /\ tool' = [name |-> "get_video_transcript", args |-> [url |-> PyStr(url)]]
          /\ tret' = get_video_transcript_result(r.out)
          /\ log' = r.reqs
    /\ tpc' = "done"
    /\ w' = NoFrame
    /\ fetched' = PyNone
    /\ prev' = NoDelete
    /\ UNCHANGED cal

CommunicationRuns(func, args) ==
    CASE func = "get_contact_id" -> get_contact_id(args.phone, {200, 204} \cup RelayStatuses)
      [] func = "send_message" -> send_message(args)
      [] func = "send_message_to_existing_chat" -> send_message_to_existing_chat(args)
      [] func = "send_email" -> send_email(args)
      [] func = "retrieve_emails" ->
            UNION {retrieve_emails(args, mailbox) : mailbox \in Mailboxes}

\* One round of the communication wrapper's while loop.
communication_with_retry ==
    /\ tpc = "core"
    /\ w.domain = "communication"
    /\ w.state = "running"
    /\ \E e \in CommunicationRuns(w.func, tool.args) :
          /\ w' = communication_wrapper(w, e.out)
          /\ log' = log \o e.reqs \o SleepOf(w, w')
    /\ UNCHANGED <<tool, tpc, tret, fetched, cal, prev>>

CalendarRuns(func, args, c, fe) ==
    CASE func = "core_list_events" -> core_list_events(args, c, fe)
      [] func = "core_create_event" -> core_create_event(args, c, fe)
      [] func = "core_update_event" -> core_update_event(args, c, fe)
      [] func = "core_delete_event" -> core_delete_event(args, c, fe)

\* What the provider answered in the requests of a log.
Answers(l) == {l[i].n : i \in {j \in 1..Len(l) : l[j].ev = "req"}}
LocalFailures(l) == {l[i].x : i \in {j \in 1..Len(l) : l[j].ev = "fail"}}

\* What is remembered of a finished core_delete_event call: its result, and
\* whether the provider only ever answered success or 404 during it.
DeleteRecord(f, l) ==
    [val |-> IF f.state = "returned" THEN f.val ELSE [t |-> "raised"],
     clean |-> Answers(l) \subseteq {200, 404} /\ LocalFailures(l) = {}]

\* One round of the calendar wrapper's while loop: func runs once, then the
\* wrapper returns, raises, or counts a retry and sleeps.
calendar_with_retry ==
    /\ tpc = "core"
    /\ w.domain = "calendar"
    /\ w.state = "running"
    /\ \E e \in CalendarRuns(w.func, tool.args, cal, fetched) :
          /\ w' = calendar_wrapper(w, e.out)
          /\ log' = log \o e.reqs \o SleepOf(w, w')
          /\ cal' = e.cal
          /\ fetched' = e.fetched
    /\ UNCHANGED <<tool, tpc, tret, prev>>

ToolResult(name, args, f) ==
    CASE name = "lister_evenements_calendrier" ->
            lister_evenements_calendrier_result(args, f)
      [] name = "creer_evenement_calendrier" ->
            creer_evenement_calendrier_result(args, f)
      [] name = "mettre_a_jour_evenement_calendrier" ->
            mettre_a_jour_evenement_calendrier_result(args, f)
      [] name = "supprimer_evenement_calendrier" ->
            supprimer_evenement_calendrier_result(args, f)
      [] name = "envoyer_message_whatsapp" -> envoyer_message_whatsapp_result(args, f)
      [] name = "repondre_chat_whatsapp" -> repondre_chat_whatsapp_result(args, f)
      [] name = "envoyer_email" -> envoyer_email_result(args, f)
      [] name = "recuperer_emails" -> recuperer_emails_result(args, f)
      [] name \in {"core_update_event", "get_contact_id", "send_message", "send_email"} ->
            direct_result(args, f)

\* The wrapped call is over: the tool converts its outcome and returns.
tool_return ==
    /\ tpc = "core"
    /\ w.state \in {"returned", "raised"}
    /\ tret' = ToolResult(tool.name, tool.args, w)
    /\ tpc' = "done"
    /\ UNCHANGED <<tool, w, log, fetched, cal, prev>>

\* The caller has taken the result; nothing of the invocation is kept.
\* Only the provider's state outlives an invocation.
invocation_over ==
    /\ tpc = "done"
    /\ tool' = [name |-> "none", args |-> PyNone]
    /\ tpc' = "idle"
    /\ tret' = PyNone
    /\ w' = NoFrame
    /\ log' = <<>>
    /\ fetched' = PyNone
    /\ prev' = IF w.func = "core_delete_event" THEN DeleteRecord(w, log) ELSE NoDelete
    /\ UNCHANGED cal

Init ==
    /\ tool = [name |-> "none", args |-> PyNone]
    /\ tpc = "idle"
    /\ tret = PyNone
    /\ w = NoFrame
    /\ log = <<>>
    /\ fetched = PyNone
    /\ cal \in {[exists |-> TRUE, event |-> InitialEvent], NoEvents}
    /\ prev = NoDelete

Next ==
    \/ lister_evenements_calendrier
    \/ creer_evenement_calendrier
    \/ mettre_a_jour_evenement_calendrier
    \/ supprimer_evenement_calendrier
    \/ call_core_update_event
    \/ calendar_with_retry
    \/ envoyer_message_whatsapp
    \/ repondre_chat_whatsapp
    \/ envoyer_email
    \/ recuperer_emails
    \/ call_get_contact_id
    \/ call_send_message
    \/ call_send_email
    \/ communication_with_retry
    \/ get_video_transcript
    \/ invocation_over
    \/ tool_return

Spec == Init /\ [][Next]_vars

(***************************************************************************)
(* Properties of the retry decorators.  A frame w records every outcome of *)
(* the wrapped function in w.outs and every sleep in w.sleeps.             *)
(***************************************************************************)
Finished == w.state \in {"returned", "raised"}

\* The i-th attempt failed with the domain's HTTP-status error.
HttpStatusFailure(i) ==
    /\ w.outs[i].kind = "exc"
    /\ w.outs[i].exc.cls = (IF w.domain = "calendar" THEN "HttpError" ELSE "HTTPError")

\* The i-th attempt failed with an HTTP status that is not to be retried.
NonRetryableFailure(i) ==
    /\ HttpStatusFailure(i)
    /\ w.outs[i].exc.status \in
          (IF w.domain = "calendar" THEN {400, 401, 403, 404} ELSE {400, 401, 403, 422})

LastLogged == IF log = <<>> THEN "none" ELSE log[Len(log)].ev

\* C1: in either wrapper, an attempt failing with an HTTP status of the
\* domain's non-retryable set (calendar 400, 401, 403, 404; communication
\* 400, 401, 403, 422) is the last attempt: the wrapper raises that same
\* error, the function is not called again and no sleep follows it, however
\* many retries the earlier attempts consumed.
C1_NonRetryablePropagatesAtOnce ==
    \A i \in 1..Len(w.outs) :
        NonRetryableFailure(i) =>
            /\ i = Len(w.outs)
            /\ w.calls = i
            /\ w.state = "raised"
            /\ w.exc = w.outs[i].exc
            /\ Len(w.sleeps) = i - 1
            /\ w.retries = i - 1
            /\ LastLogged # "sleep"

\* A relay call raised 422 on its third attempt, two retries being consumed.
C1_Witness ==
    /\ w.domain = "communication"
    /\ w.state = "raised"
    /\ w.calls = 3
    /\ w.retries = 2
    /\ NonRetryableFailure(3)
    /\ w.exc.status = 422
    /\ Len(w.sleeps) = 2

\* The i-th attempt failed and the wrapper is to retry it: an HTTP status
\* outside the non-retryable set, a connection error or timeout, or any
\* other exception.
RetryableFailure(i) == w.outs[i].kind = "exc" /\ ~NonRetryableFailure(i)

AllAttemptsFailedRetryably ==
    /\ w.outs # <<>>
    /\ \A i \in 1..Len(w.outs) : RetryableFailure(i)

FailureClasses == {w.outs[i].exc.cls : i \in 1..Len(w.outs)}

\* C2: when every attempt of a wrapped call fails with a retryable error, of
\* whatever classes, the function is called exactly R+1 times, the wrapper
\* sleeps exactly R times and then raises the exception of the last attempt;
\* it returns no value.  Until then one sleep follows each failure.
C2_ExhaustedRetriesRaiseLast ==
    AllAttemptsFailedRetryably =>
        /\ w.calls = Len(w.outs)
        /\ w.calls <= w.max_retries + 1
        /\ w.state = "running" =>
              /\ w.calls <= w.max_retries
              /\ Len(w.sleeps) = w.calls
        /\ Finished =>
              /\ w.calls = w.max_retries + 1
              /\ Len(w.sleeps) = w.max_retries
              /\ w.state = "raised"
              /\ w.exc = w.outs[Len(w.outs)].exc
              /\ w.val = PyNone

\* A calendar call failed four times, with HTTP 500 and with another kind of
\* error among the failures, and raised after three sleeps.
C2_Witness ==
    /\ w.domain = "calendar"
    /\ w.max_retries = DefaultMaxRetries
    /\ AllAttemptsFailedRetryably
    /\ w.state = "raised"
    /\ w.calls = 4
    /\ Len(w.sleeps) = 3
    /\ Cardinality(FailureClasses) >= 2
    /\ \E i \in 1..Len(w.outs) : HttpStatusFailure(i) /\ w.outs[i].exc.status = 500

\* C3: a wrapped call that fails retryably on its first k attempts, k from 0
\* to R, and succeeds on attempt k+1 has called the function k+1 times and
\* slept k times, and returns the value of the successful attempt.
C3_SuccessAfterRetries ==
    \A n \in 1..Len(w.outs) :
        w.outs[n].kind = "ret" =>
            /\ n = Len(w.outs)
            /\ \A i \in 1..(n - 1) : RetryableFailure(i)
            /\ n - 1 <= w.max_retries
            /\ w.calls = n
            /\ Len(w.sleeps) = n - 1
            /\ w.state = "returned"
            /\ w.val = w.outs[n].val
            /\ w.exc = NoExc

\* A relay call succeeded on its fourth attempt and returned the relay's answer.
C3_Witness ==
    /\ w.domain = "communication"
    /\ w.max_retries = DefaultMaxRetries
    /\ w.state = "returned"
    /\ w.calls = DefaultMaxRetries + 1
    /\ Len(w.sleeps) = DefaultMaxRetries
    /\ w.outs[w.calls].kind = "ret"
    /\ w.val = w.outs[w.calls].val
    /\ w.val # PyNone

\* The k-th failure of the call is an HTTP-status error or a network-level
\* connection or timeout error.
HttpOrNetworkFailure(k) ==
    w.outs[k].exc.cls \in {"HttpError", "HTTPError", "ConnectionError", "Timeout"}

\* C4: in both wrappers the sleep after the k-th failed attempt lasts
\* D * 2^(k-1) when that failure is an HTTP-status error or a connection or
\* timeout error, and D when it is any other exception.  The calendar wrapper
\* has no branch for connection errors: it sleeps D after them.
C4_SameBackoffInBothWrappers ==
    \A k \in 1..Len(w.sleeps) :
        w.sleeps[k] = IF HttpOrNetworkFailure(k)
                      THEN w.delay * (2 ^ (k - 1))
                      ELSE w.delay

\* A calendar call lost its connection on the second attempt and slept D, not 2D.
C4_Witness ==
    /\ w.domain = "calendar"
    /\ Len(w.sleeps) >= 2
    /\ w.outs[2].exc.cls = "ConnectionError"
    /\ w.sleeps[2] = w.delay
    /\ w.delay * (2 ^ (2 - 1)) = 2 * DefaultDelay

(***************************************************************************)
(* Properties of the e-mail client                                         *)
(***************************************************************************)
\* The requests of the log that got no answer: connections refused, lost or
\* timed out.
TransientFailures == {i \in 1..Len(log) : log[i].ev = "req" /\ log[i].n = 0}

EmailCallOver == w.func \in {"send_email", "retrieve_emails"} /\ Finished

\* C5: a transient failure of an e-mail operation is retried with R = 2 and
\* D = 2: when the SMTP or IMAP session fails transiently in every attempt,
\* the operation has been attempted three times, with two sleeps, before the
\* failure is reported.  The code catches the failure inside the decorated
\* function, so the first failed session is also the last.
C5_EmailTransientFailureRetried ==
    (EmailCallOver /\ TransientFailures # {} /\ Cardinality(TransientFailures) = w.calls)
        => /\ w.calls = EmailMaxRetries + 1
           /\ Len(w.sleeps) = EmailMaxRetries

\* send_email could not connect: one attempt, no sleep, a failure result.
C5_Witness ==
    /\ w.func = "send_email"
    /\ w.max_retries = EmailMaxRetries
    /\ w.state = "returned"
    /\ w.calls = 1
    /\ w.sleeps = <<>>
    /\ log = <<ReqNet("SMTP connect")>>
    /\ w.val.t = "dict"
    /\ ~w.val.d.success

(***************************************************************************)
(* Properties of the transcript client                                     *)
(***************************************************************************)
TranscriptOver == tool.name = "get_video_transcript" /\ tpc = "done"

Lookups == {i \in 1..Len(log) : log[i].ev = "req" /\ log[i].x = "video/subtitles"}
Sleeps == {i \in 1..Len(log) : log[i].ev = "sleep"}

\* The first caption lookup failed transiently: a 5xx status or no answer.
FirstLookupTransient == log # <<>> /\ log[1].ev = "req" /\ log[1].n \in {0, 500}

\* C6, as the code has it: the caption lookup is not wrapped.  An invocation
\* of the transcript tool issues the lookup at most once, exactly once when
\* the URL is not empty, and never sleeps; a transient failure of that one
\* lookup is reported at once as a response with success false.
C6_LookupIssuedOnce ==
    TranscriptOver =>
        /\ Cardinality(Lookups) = (IF tool.args.url.s = <<>> THEN 0 ELSE 1)
        /\ Sleeps = {}
        /\ FirstLookupTransient =>
              /\ Len(log) = 1
              /\ tret.t = "TranscriptResponse"
              /\ ~tret.success
              /\ tret.transcript = PyNone
              /\ tret.error # PyNone

\* The caption service answered 500 and the tool reported failure at once.
C6_Witness ==
    /\ TranscriptOver
    /\ log = <<Req("video/subtitles", 500)>>
    /\ ~tret.success

\* C6, as stated: a transient failure of the caption lookup is retried with
\* backoff before the tool reports failure.
C6_LookupRetried ==
    (TranscriptOver /\ FirstLookupTransient /\ ~tret.success)
        => Cardinality(Lookups) >= 2 /\ Sleeps # {}

(***************************************************************************)
(* Properties of the calendar client and of the tools                      *)
(***************************************************************************)
Requests(name) == {i \in 1..Len(log) : log[i].ev = "req" /\ log[i].x = name}

UpdateCall == w.func = "core_update_event"

\* The provider answered 404 to the first fetch of the call.
FirstFetchNotFound == log # <<>> /\ log[1] = Req("events.get", 404)

\* C7: when the provider answers 404 to the initial fetch of
\* core_update_event, the 404 is terminal: one fetch, no sleep, no patch, and
\* the not-found failure is raised.  The code raises ValueError inside the
\* wrapped function, which the wrapper's generic branch retries.
C7_UpdateNotFoundIsTerminal ==
    (UpdateCall /\ FirstFetchNotFound) =>
        /\ Cardinality(Requests("events.get")) = 1
        /\ Requests("events.patch") = {}
        /\ Sleeps = {}
        /\ w.sleeps = <<>>
        /\ w.calls = 1
        /\ w.state = "raised"
        /\ w.exc = NotFound(tool.args.event_id)

\* The update tool answered its not-found message only after four fetches
\* and three sleeps.
C7_Witness ==
    /\ tool.name = "mettre_a_jour_evenement_calendrier"
    /\ tpc = "done"
    /\ FirstFetchNotFound
    /\ Cardinality(Requests("events.get")) = DefaultMaxRetries + 1
    /\ w.sleeps = <<DefaultDelay, DefaultDelay, DefaultDelay>>
    /\ tret = Text(NotFound("e1").msg)

\* The updates mapping names no recognised field, or only attendees as None.
EmptyPatch(updates) ==
    /\ DOMAIN updates \cap {"summary", "description", "location",
                            "start_time", "end_time"} = {}
    /\ "attendees" \in DOMAIN updates => updates["attendees"] = PyNone

\* The log entry before the i-th is the successful fetch.
FetchedJustBefore(i) == i > 1 /\ log[i - 1] = ReqOk("events.get")

\* C8: a core_update_event call whose updates give an empty patch issues no
\* patch request and returns exactly the event its fetch obtained; a patch
\* request is only ever issued right after a successful fetch, and with a
\* patch that is not empty.
C8_EmptyPatchWritesNothing ==
    UpdateCall =>
        /\ EmptyPatch(tool.args.updates) =>
              /\ Requests("events.patch") = {}
              /\ \A n \in 1..Len(w.outs) :
                    w.outs[n].kind = "ret" =>
                        /\ log[Len(log)] = ReqOk("events.get")
                        /\ w.val = fetched
                        /\ w.val = cal.event
        /\ \A i \in Requests("events.patch") :
              /\ FetchedJustBefore(i)
              /\ ~EmptyPatch(tool.args.updates)

\* core_update_event was handed updates with only attendees = None: it
\* fetched the event and returned it, and the provider's event is unchanged.
C8_Witness ==
    /\ UpdateCall
    /\ tool.args.updates = [attendees |-> PyNone]
    /\ w.state = "returned"
    /\ log = <<ReqOk("events.get")>>
    /\ w.val = fetched
    /\ w.val = InitialEvent
    /\ cal.event = InitialEvent

DeleteCall == w.func = "core_delete_event"

\* The provider only ever answered success or 404 in this invocation, and
\* the credentials loaded.
CleanInvocation == Answers(log) \subseteq {200, 404} /\ LocalFailures(log) = {}

\* C9: core_delete_event returns False, without raising, on an event the
\* provider reports as 404: the 404 is the call's last request, no sleep and
\* no further delete request follow it.  So a second delete right after one
\* that returned True returns False, never an exception, whenever the
\* provider answers it, and the delete tool then gives its not-found text.
C9_DeleteNotFoundReturnsFalse ==
    DeleteCall =>
        /\ \A i \in Requests("events.delete") :
              log[i].n = 404 =>
                  /\ i = Len(log)
                  /\ w.state = "returned"
                  /\ w.val = PyBool(FALSE)
                  /\ w.exc = NoExc
                  /\ w.outs[Len(w.outs)] = Ret(PyBool(FALSE))
                  /\ Len(w.sleeps) = Len(w.outs) - 1
                  /\ i = 1 => w.calls = 1 /\ w.sleeps = <<>>
        /\ (prev.val = PyBool(TRUE) /\ Finished /\ CleanInvocation) =>
              /\ w.state = "returned"
              /\ w.val = PyBool(FALSE)
              /\ log = <<Req("events.delete", 404)>>
        /\ (tpc = "done" /\ tool.name = "supprimer_evenement_calendrier"
                /\ w.state = "returned" /\ w.val = PyBool(FALSE)) =>
              tret = Text(<<"Evenement ", tool.args.event_id,
                            " non trouve ou deja supprime.">>)

\* The event was deleted (True) and deleted again at once: the provider
\* answered 404, the call returned False and the tool its not-found text.
C9_Witness ==
    /\ tool.name = "supprimer_evenement_calendrier"
    /\ tpc = "done"
    /\ prev.val = PyBool(TRUE)
    /\ log = <<Req("events.delete", 404)>>
    /\ w.state = "returned"
    /\ w.val = PyBool(FALSE)
    /\ w.sleeps = <<>>
    /\ tret = Text(<<"Evenement ", "e1", " non trouve ou deja supprime.">>)

Tools ==
    {"lister_evenements_calendrier", "creer_evenement_calendrier",
     "mettre_a_jour_evenement_calendrier", "supprimer_evenement_calendrier",
     "envoyer_message_whatsapp", "repondre_chat_whatsapp",
     "envoyer_email", "recuperer_emails", "get_video_transcript"}

\* C10: no tool invocation lets an exception escape: whatever the client
\* calls did, exhausted retries and non-retryable errors included, the tool
\* returns a text, or for the transcript tool a response with its success
\* flag set and, when false, an error text.
C10_NoExceptionEscapesATool ==
    (tool.name \in Tools /\ tpc = "done") =>
        /\ tret.t # "raised"
        /\ IF tool.name = "get_video_transcript"
           THEN /\ tret.t = "TranscriptResponse"
                /\ tret.success \in BOOLEAN
                /\ ~tret.success => tret.error.t = "str" /\ tret.transcript = PyNone
           ELSE tret.t = "str"
        /\ w.state = "raised" => tret.t = "str" /\ tret.s # <<>>

\* The relay refused a message with 403, which is not retried: the wrapper
\* raised and the tool returned an error text.
C10_Witness ==
    /\ tool.name = "envoyer_message_whatsapp"
    /\ tpc = "done"
    /\ w.state = "raised"
    /\ w.exc.cls = "HTTPError"
    /\ w.exc.status = 403
    /\ tret = Text(<<"Erreur lors de l'envoi du message WhatsApp: ">> \o w.exc.msg)

(***************************************************************************)
(* Properties of the communication tools                                   *)
(***************************************************************************)
WhatsAppTools == {"envoyer_message_whatsapp", "repondre_chat_whatsapp"}
EmailTools == {"envoyer_email", "recuperer_emails"}

CommunicationToolOver == tool.name \in WhatsAppTools \cup EmailTools /\ tpc = "done"

\* The relay's API key or DSN, or one of the mail credentials, is not set.
ConfigurationMissing ==
    IF tool.name \in WhatsAppTools THEN ~tool.args.settings.unipile
    ELSE ~tool.args.settings.email

\* The tool's checks of its own arguments, made before it asks for a client.
ArgumentsAccepted ==
    CASE tool.name = "envoyer_message_whatsapp" ->
            /\ tool.args.settings.account_id
            /\ tool.args.phone_number.s # <<>>
            /\ tool.args.message.s # <<>>
            /\ Len(tool.args.phone.s) >= 8
      [] tool.name = "repondre_chat_whatsapp" ->
            /\ tool.args.settings.account_id
            /\ tool.args.chat_id.s # <<>>
            /\ tool.args.message.s # <<>>
      [] tool.name = "envoyer_email" ->
            tool.args.to.l # <<>> /\ tool.args.subject.s # <<>>
      [] OTHER -> TRUE

ConfigurationErrorText ==
    /\ tret.t = "str"
    /\ tret.s # <<>>
    /\ tret.s[1] \in {"Erreur de configuration WhatsApp: ", "Erreur de configuration Email: "}

\* C11: with the relay's key or DSN, or a mail credential, missing, the tool
\* gets the configuration error before any network call, with no retry and
\* no sleep, and returns the configuration-error message; and that message
\* is returned for a configuration error only, never for a failure of the
\* remote call.  The tools take any ValueError for a configuration error,
\* and the relay's answer failing to parse as JSON is one.
C11_ConfigurationErrorDistinct ==
    CommunicationToolOver =>
        /\ ConfigurationMissing =>
              /\ log = <<>>
              /\ w.calls = 0
              /\ w.sleeps = <<>>
              /\ ArgumentsAccepted => ConfigurationErrorText
        /\ ConfigurationErrorText => ConfigurationMissing

\* The relay is configured and answered the POST with a body that is not
\* JSON, four times; the tool reports a configuration error.
C11_Witness ==
    /\ tool.name = "envoyer_message_whatsapp"
    /\ tpc = "done"
    /\ ~ConfigurationMissing
    /\ w.state = "raised"
    /\ w.exc = JSONDecodeError
    /\ w.calls = DefaultMaxRetries + 1
    /\ Cardinality(Requests("POST /chats")) = DefaultMaxRetries + 1
    /\ tret = Text(<<"Erreur de configuration WhatsApp: ">> \o JSONDecodeError.msg)

\* What does hold: a missing configuration is reported before any network
\* call, retry or sleep.
C11_MissingConfigurationReportedAtOnce ==
    (CommunicationToolOver /\ ConfigurationMissing) =>
        /\ log = <<>>
        /\ w = NoFrame
        /\ ArgumentsAccepted => ConfigurationErrorText

NoRecipient == <<"Aucun destinataire specifie">>

\* C12: a send-email request whose To list is empty is rejected with a
\* failure result before any network I/O, by the tool and by
\* EmailClient.send_email alike: no SMTP connection, no attachment file
\* looked at or read, no retry and no sleep.
C12_EmptyToRejectedBeforeIO ==
    (tool.name \in {"envoyer_email", "send_email"} /\ tool.args.to.l = <<>>) =>
        /\ log = <<>>
        /\ w.sleeps = <<>>
        /\ w.retries = 0
        /\ w.calls <= 1
        /\ (tool.name = "envoyer_email" /\ tpc \in {"core", "done"}) =>
              /\ tpc = "done"
              /\ w = NoFrame
              /\ tret = Text(<<"Erreur: Au moins un destinataire (to) est requis.">>)
        /\ (tool.name = "send_email" /\ w.calls = 1) =>
              /\ w.state = "returned"
              /\ w.val = SendFailure(NoRecipient)
        /\ (tool.name = "send_email" /\ tpc = "done") => tret = SendFailure(NoRecipient)

\* send_email was called with no recipient and an attachment: it returned
\* the failure at its first attempt and touched nothing.
C12_Witness ==
    /\ tool.name = "send_email"
    /\ tool.args.to.l = <<>>
    /\ tool.args.attachments # PyNone
    /\ tpc = "done"
    /\ w.calls = 1
    /\ log = <<>>
    /\ tret = SendFailure(NoRecipient)

(***************************************************************************)
(* Properties of EmailClient.send_email                                    *)
(***************************************************************************)
SendEmailCall == w.func = "send_email"

\* The submissions of the invocation: the calls of server.send_message.
Submissions == Requests("SMTP send_message")

ListOf(v) == IF v = PyNone THEN <<>> ELSE v.l
Elements(seq) == {seq[i] : i \in 1..Len(seq)}

\* C13: in every send_email call that reaches submission, the envelope
\* recipients handed to the SMTP session are To, then Cc, then Bcc, and the
\* headers written are From, To, Subject and, when Cc is not empty, Cc; no
\* Bcc address occurs in a header.
C13_BccOnlyInEnvelope ==
    SendEmailCall =>
        \A i \in Submissions :
            LET to == tool.args.to.l
                cc == ListOf(tool.args.cc)
                bcc == ListOf(tool.args.bcc)
                hs == log[i].msg.headers
            IN  /\ log[i].to_addrs = to \o cc \o bcc
                /\ DOMAIN hs = {"From", "To", "Subject"}
                                  \cup (IF cc # <<>> THEN {"Cc"} ELSE {})
                /\ Elements(hs["To"]) \ {", "} = Elements(to)
                /\ cc # <<>> => Elements(hs["Cc"]) \ {", "} = Elements(cc)
                /\ \A h \in DOMAIN hs : Elements(hs[h]) \cap Elements(bcc) = {}

\* A message with a Cc and a Bcc was submitted and accepted: three envelope
\* recipients, the blind one last and in no header.
C13_Witness ==
    /\ SendEmailCall
    /\ w.state = "returned"
    /\ w.val.d.success
    /\ tool.args.cc = Copy
    /\ tool.args.bcc = Blind
    /\ \E i \in Submissions :
          /\ log[i].n = 200
          /\ log[i].to_addrs = <<"a@x.org", "c@x.org", "b@x.org">>
          /\ DOMAIN log[i].msg.headers = {"From", "To", "Subject", "Cc"}

SendWhatsApp == tool.name = "envoyer_message_whatsapp"

\* The normalized number the tool computed.
Normalized == tool.args.phone.s

RelayRequests == {i \in 1..Len(log) : log[i].ev = "req"}

\* C14: the send-WhatsApp tool never attempts a send with an invalid
\* identifier: when the normalized number is empty or shorter than 8 digits
\* the tool returns an error text and issues neither the contact lookup nor
\* the message POST; every request it does issue is for a number of at least
\* 8 characters, all digits.
C14_NoSendToInvalidNumber ==
    SendWhatsApp =>
        /\ Len(Normalized) < 8 =>
              /\ tpc = "done"
              /\ log = <<>>
              /\ w = NoFrame
              /\ tret.t = "str"
              /\ tret.s[1] \in {"Erreur: Aucun ID de compte WhatsApp ",
                                "Erreur: Le numero de telephone et le ",
                                "Erreur: Numero de telephone '"}
        /\ (RelayRequests # {} \/ w # NoFrame) =>
              /\ Len(Normalized) >= 8
              /\ \A i \in 1..Len(Normalized) : Normalized[i] \in Digits

\* "12:34" normalizes to four digits: the tool refused it without a request.
C14_Witness ==
    /\ SendWhatsApp
    /\ tpc = "done"
    /\ tool.args.settings.account_id
    /\ tool.args.message.s # <<>>
    /\ tool.args.phone_number.s = <<"1", "2", ":", "3", "4">>
    /\ Normalized = <<"1", "2", "3", "4">>
    /\ tret.s[1] = "Erreur: Numero de telephone '"
    /\ log = <<>>

(***************************************************************************)
(* The pure functions, applied to every input of a bounded set: a second   *)
(* specification, in which the function named by tool.name is applied to   *)
(* tool.args and its result left in tret.                                  *)
(***************************************************************************)
MaxPhoneLen == 4

PhoneAlphabet == {"0", "7", "+", ":", " ", "a"}

PhoneInputs == UNION {[1..n -> PhoneAlphabet] : n \in 0..MaxPhoneLen}

MaxParts == 2

\* Text parts: with a Content-Type header and a known charset, with a
\* charset Python does not know, and (text/plain being the default type)
\* without any header.
TextParts ==
    {Part("text/html", <<c>>, 1, TRUE) : c \in {"<a>", "<b>"}}
    \cup {Part("text/plain", <<c>>, 1, known) : c \in {"a", "b"}, known \in BOOLEAN}
    \cup {Part("text/plain", <<c>>, 0, TRUE) : c \in {"a", "b"}}

Leaves == TextParts \cup {Part("image/png", <<"png">>, 1, TRUE)}

\* A nested multipart/alternative, as mail programs build them.
Nested ==
    {Multipart(<<p>>) : p \in {Part("text/plain", <<"n">>, 1, TRUE),
                               Part("text/html", <<"<n>">>, 1, TRUE)}}
    \cup {Multipart(<<Part("text/plain", <<"n">>, 1, TRUE),
                      Part("text/html", <<"<n>">>, 1, TRUE)>>)}

Messages ==
    Leaves \cup {Multipart(parts) :
                    parts \in UNION {[1..n -> Leaves \cup Nested] : n \in 1..MaxParts}}

MaxParams == 2

\* The beginnings of a watch URL up to "?", and of a short URL up to the host.
WatchPages ==
    {"https://www.youtube.com/watch?", "http://www.youtube.com/watch?",
     "https://youtube.com/watch?", "https://m.youtube.com/watch?"}

ShortSchemes == {"https://", "http://", "https://www."}

VideoIds == {"abc123", "dQw4w9WgXcQ"}

\* "&"-separated query parameters after the identifier
RECURSIVE Params(_)
Params(n) ==
    IF n = 0 THEN {<<>>}
    ELSE Params(n - 1)
         \cup {<<"&", p>> \o rest : p \in {"t=5", "list=PL1"}, rest \in Params(n - 1)}

VideoUrls ==
    {<<>>, <<"https://vimeo.com/", "abc123">>}
    \cup {<<id>> : id \in VideoIds}
    \cup {<<page, "v=", id>> \o params :
             page \in WatchPages, id \in VideoIds, params \in Params(MaxParams)}
    \cup {<<scheme, "youtu.be/", id>> \o tail :
             scheme \in ShortSchemes, id \in VideoIds,
             tail \in {<<>>, <<"?t=5">>, <<"?u=", "youtu.be/", "x">>}}
    \cup {<<page, "v=", id, "v=", "x", "&", "t=5">> : page \in WatchPages, id \in VideoIds}

FunctionInputs ==
    {[name |-> "format_phone_number", args |-> PyStr(s)] : s \in PhoneInputs}
    \cup {[name |-> "_get_email_body", args |-> m] : m \in Messages}
    \cup {[name |-> "extract_video_id", args |-> PyStr(url)] : url \in VideoUrls}

FunctionInit ==
    /\ tool \in FunctionInputs
    /\ tpc = "idle"
    /\ tret = PyNone
    /\ w = NoFrame
    /\ log = <<>>
    /\ fetched = PyNone
    /\ cal = NoEvents
    /\ prev = NoDelete

\* format_phone_number(phone_number) is called and returns.
call_format_phone_number ==
    /\ tpc = "idle"
    /\ tool.name = "format_phone_number"
    /\ tret' = PyStr(format_phone_number(tool.args.s))
    /\ tpc' = "done"
    /\ UNCHANGED <<tool, w, log, fetched, cal, prev>>

\* EmailClient._get_email_body(msg_part) is called and returns.
call_get_email_body ==
    /\ tpc = "idle"
    /\ tool.name = "_get_email_body"
    /\ tret' = PyStr(get_email_body(tool.args))
    /\ tpc' = "done"
    /\ UNCHANGED <<tool, w, log, fetched, cal, prev>>

\* extract_video_id(url) is called and returns or raises.
call_extract_video_id ==
    /\ tpc = "idle"
    /\ tool.name = "extract_video_id"
    /\ tret' = extract_video_id(tool.args.s)
    /\ tpc' = "done"
    /\ UNCHANGED <<tool, w, log, fetched, cal, prev>>

FunctionNext ==
    \/ call_format_phone_number
    \/ call_get_email_body
    \/ call_extract_video_id

FunctionSpec == FunctionInit /\ [][FunctionNext]_vars

(***************************************************************************)
(* Properties of format_phone_number                                       *)
(***************************************************************************)
PhoneFormatted == tool.name = "format_phone_number" /\ tpc = "done"

\* The digit characters of a string, in order.
RECURSIVE DigitsOf(_)
DigitsOf(s) ==
    IF s = <<>> THEN <<>>
    ELSE IF Head(s) \in {"0", "1", "2", "3", "4", "5", "6", "7", "8", "9"}
    THEN <<Head(s)>> \o DigitsOf(Tail(s))
    ELSE DigitsOf(Tail(s))

\* A digit sequence less one leading "00" pair.
LessLeading00(d) ==
    IF Len(d) >= 2 /\ d[1] = "0" /\ d[2] = "0" THEN SubSeq(d, 3, Len(d)) ELSE d

\* C15: for an input with at least one digit, format_phone_number returns
\* the input's digits in their order, less one leading "00" pair when the
\* digits begin with "00" (one pair at most); a leading "+" is dropped and
\* no character that is not a digit is returned.
C15_DigitsInOrder ==
    (PhoneFormatted /\ DigitsOf(tool.args.s) # <<>>) =>
        /\ tret.s = LessLeading00(DigitsOf(tool.args.s))
        /\ \A i \in 1..Len(tret.s) : tret.s[i] \in {"0", "7"}

\* An input that begins with "+" and whose digits are 007: "7" is returned.
C15_Witness ==
    /\ PhoneFormatted
    /\ Len(tool.args.s) = MaxPhoneLen
    /\ tool.args.s[1] = "+"
    /\ DigitsOf(tool.args.s) = <<"0", "0", "7">>
    /\ tret.s = <<"7">>

\* C16, as the code has it: format_phone_number returns the empty string
\* exactly when nothing is left of the input's digits once one leading "00"
\* pair is removed, that is for an input without digits and for one whose
\* digits are just "00"; in every other case it returns a non-empty string
\* of digits only.
C16_EmptyIffNoDigitsLeft ==
    PhoneFormatted =>
        /\ tret.s = <<>> <=> DigitsOf(tool.args.s) \in {<<>>, <<"0", "0">>}
        /\ \A i \in 1..Len(tret.s) : tret.s[i] \in {"0", "7"}

\* "+0 0" has two digits and normalizes to the empty string.
C16_Witness ==
    /\ PhoneFormatted
    /\ tool.args.s = <<"+", "0", " ", "0">>
    /\ tret.s = <<>>

\* C16, as stated: the empty string is returned exactly when the input has
\* no digit; with at least one digit the result is a non-empty string of
\* digits.
C16_EmptyIffNoDigits ==
    PhoneFormatted =>
        /\ DigitsOf(tool.args.s) = <<>> => tret.s = <<>>
        /\ DigitsOf(tool.args.s) # <<>> =>
              /\ tret.s # <<>>
              /\ \A i \in 1..Len(tret.s) : tret.s[i] \in {"0", "7"}

\* The digits of a string that follow its last colon.
RECURSIVE AfterLastColon(_)
AfterLastColon(s) ==
    IF \E i \in 1..Len(s) : s[i] = ":"
    THEN AfterLastColon(Tail(s))
    ELSE s

HasColon(s) == \E i \in 1..Len(s) : s[i] = ":"

\* C17: when the input contains a colon only what follows the last colon is
\* kept: the digits before it are not in the output.  In the code the colon
\* is among the characters removed first, so the split never happens.
C17_OnlyAfterLastColon ==
    (PhoneFormatted /\ HasColon(tool.args.s)) =>
        tret.s = LessLeading00(DigitsOf(AfterLastColon(tool.args.s)))

\* "7:07" is normalized to 707: the digit before the colon is kept.
C17_Witness ==
    /\ PhoneFormatted
    /\ tool.args.s = <<"7", ":", "0", "7">>
    /\ tret.s = <<"7", "0", "7">>

\* What happened to each attachment path, in order: not found, not readable,
\* or attached.
FileEvents ==
    SelectSeq(log, LAMBDA e : e.ev \in {"fail", "did"}
                              /\ e.x \in {"os.path.exists", "open", "attach"})

\* The paths whose file was read, given what happened to each path.
RECURSIVE Present(_, _)
Present(paths, events) ==
    IF paths = <<>> \/ events = <<>> THEN <<>>
    ELSE (IF Head(events).x = "attach" THEN <<Head(paths)>> ELSE <<>>)
         \o Present(Tail(paths), Tail(events))

SessionWentThrough == \A i \in RelayRequests : log[i].n = 200

\* C18: in send_email an attachment whose file does not exist or cannot be
\* read is skipped and the send goes on: every path is looked at, the
\* message submitted carries exactly the files that could be read, in their
\* order, it is submitted in one SMTP transaction, and when the session goes
\* through the send succeeds.
C18_MissingAttachmentSkipped ==
    (SendEmailCall /\ tool.args.to.l # <<>>) =>
        LET paths == ListOf(tool.args.attachments)
        IN  /\ Cardinality(Submissions) <= 1
            /\ Cardinality(Requests("SMTP connect")) <= 1
            /\ \A i \in Submissions :
                  /\ Len(FileEvents) = Len(paths)
                  /\ log[i].msg.attachments = Present(paths, FileEvents)
            /\ (Finished /\ SessionWentThrough) =>
                  /\ Len(FileEvents) = Len(paths)
                  /\ Cardinality(Submissions) = 1
                  /\ w.val.d.success

\* The first of two attachments did not exist: the second was embedded and
\* the message submitted and accepted.
C18_Witness ==
    /\ SendEmailCall
    /\ tool.args.attachments = Files
    /\ FileEvents = <<Failed("os.path.exists"), Did("attach")>>
    /\ w.state = "returned"
    /\ w.val.d.success
    /\ \E i \in Submissions :
          log[i].n = 200 /\ log[i].msg.attachments = <<"/tmp/b.pdf">>

(***************************************************************************)
(* Properties of _get_email_body                                           *)
(***************************************************************************)
BodyReturned == tool.name = "_get_email_body" /\ tpc = "done"

\* The parts of a message in depth-first order, the message first.
RECURSIVE DepthFirst(_)
DepthFirst(part) ==
    LET RECURSIVE Over(_)
        Over(parts) == IF parts = <<>> THEN <<>>
                       ELSE DepthFirst(Head(parts)) \o Over(Tail(parts))
    IN  <<part>> \o Over(part.parts)

OfType(parts, type) == {i \in 1..Len(parts) : parts[i].type = type}

First(S) == CHOOSE i \in S : \A j \in S : i <= j
Last(S) == CHOOSE i \in S : \A j \in S : j <= i

\* The part the claim designates: the first text/html part of the walk, or
\* without one the last text/plain part.
Designated(msg) ==
    LET parts == DepthFirst(msg)
    IN  IF OfType(parts, "text/html") # {} THEN parts[First(OfType(parts, "text/html"))]
        ELSE parts[Last(OfType(parts, "text/plain"))]

HasText(msg) ==
    OfType(DepthFirst(msg), "text/html") \cup OfType(DepthFirst(msg), "text/plain") # {}

\* C19: for a multipart message _get_email_body returns the content of the
\* first text/html part of the depth-first walk when there is one, and
\* otherwise the content of the last text/plain part.  The code tests the
\* chosen part for truth, and a part without header fields is false: its
\* content is dropped.
C19_HtmlFirstElseLastPlain ==
    (BodyReturned /\ tool.args.parts # <<>> /\ HasText(tool.args)) =>
        tret.s = Designated(tool.args).content

\* The only text of a multipart message is a text/plain part without header
\* fields: the body returned is empty.
C19_Witness ==
    /\ BodyReturned
    /\ tool.args.parts = <<Part("text/plain", <<"a">>, 0, TRUE)>>
    /\ Designated(tool.args).content = <<"a">>
    /\ tret.s = <<>>

\* What does hold: the designated part's content is returned whenever that
\* part has a header field and a charset Python knows.
C19_HoldsForDecodableParts ==
    (BodyReturned /\ tool.args.parts # <<>> /\ HasText(tool.args)
        /\ Designated(tool.args).n_headers > 0 /\ Designated(tool.args).charset_known) =>
        tret.s = Designated(tool.args).content

(***************************************************************************)
(* Properties of extract_video_id                                          *)
(***************************************************************************)
IdExtracted == tool.name = "extract_video_id" /\ tpc = "done"

\* A URL of the shape .../watch?v=<ID>, and one of the shape ...youtu.be/<ID>
WatchShape(url) == Len(url) >= 3 /\ url[1] \in WatchPages /\ url[2] = "v="
ShortShape(url) == Len(url) >= 3 /\ url[1] \in ShortSchemes /\ url[2] = "youtu.be/"

\* The tokens of s before its first "&"
UpToAmpersand(s) ==
    LET stops == {i \in 1..Len(s) : s[i] = "&"}
    IN  IF stops = {} THEN s
        ELSE SubSeq(s, 1, (CHOOSE i \in stops : \A j \in stops : i <= j) - 1)

\* The tokens of s before the first of its tokens that is in seps
Before(s, seps) ==
    LET stops == {i \in 1..Len(s) : s[i] \in seps}
    IN  IF stops = {} THEN s
        ELSE SubSeq(s, 1, (CHOOSE i \in stops : \A j \in stops : i <= j) - 1)

AfterHead(url) == SubSeq(url, 3, Len(url))

CaptionsSent ==
    {log[i].body.d["subtitles"] :
        i \in {j \in 1..Len(log) : log[j].x = "video/subtitles" /\ "body" \in DOMAIN log[j]
                                     /\ "subtitles" \in DOMAIN log[j].body.d}}

\* A transcript was retrieved: the service sent at least one segment and every
\* segment has a text.
TranscriptRetrieved ==
    \E segments \in CaptionsSent :
        segments # <<>> /\ \A i \in 1..Len(segments) : "text" \in DOMAIN segments[i]

RECURSIVE TextOf(_)
TextOf(segments) ==
    IF Len(segments) = 1 THEN <<segments[1].text>>
    ELSE <<segments[1].text, " ">> \o TextOf(Tail(segments))

RetrievedText == TextOf(CHOOSE segments \in CaptionsSent : TRUE)

\* C21: the get-transcript tool answers success=true only when a transcript
\* was retrieved, success=false with an error whenever none was (missing
\* subtitles, API failure, invalid URL), and every retrieved transcript,
\* whatever its text, is returned with success=true.  The client reports
\* failures as texts, which the tool tells from transcripts by their first
\* letters only.
C21_SuccessIffTranscriptRetrieved ==
    TranscriptOver =>
        /\ tret.t = "TranscriptResponse"
        /\ tret.success <=> TranscriptRetrieved
        /\ tret.success => tret.transcript = PyStr(RetrievedText)
        /\ ~tret.success => tret.error # PyNone

\* The service answered 200 without any subtitle and the tool answered
\* success=true, the notice standing as the transcript.
C21_Witness ==
    /\ TranscriptOver
    /\ log = <<Answered("video/subtitles", PyDict([subtitles |-> <<>>]))>>
    /\ tret = TranscriptResponse(TRUE,
                  PyStr(<<"Aucune transcription disponible pour cette video">>), PyNone)

\* A retrieved transcript whose text begins with "Erreur" is answered with
\* success=false.
C21_RetrievedTextReportedAsError ==
    /\ TranscriptOver
    /\ TranscriptRetrieved
    /\ RetrievedText[1] = "Erreur"
    /\ ~tret.success

\* What does hold: apart from the two cases above, success=true goes with a
\* retrieved transcript and success=false with an error text.
C21_HoldsApartFromInBandTexts ==
    (TranscriptOver
        /\ (TranscriptRetrieved => RetrievedText[1] # "Erreur")
        /\ (CaptionsSent # {<<>>} /\ ~(\E i \in 1..Len(log) : log[i].x = "video/subtitles"
                                        /\ "body" \in DOMAIN log[i]
                                        /\ "subtitles" \notin DOMAIN log[i].body.d))) =>
        /\ tret.t = "TranscriptResponse"
        /\ tret.success <=> TranscriptRetrieved
        /\ tret.success => tret.transcript = PyStr(RetrievedText)
        /\ ~tret.success => tret.error # PyNone

(***************************************************************************)
(* Properties of retrieve_emails                                           *)
(***************************************************************************)
RetrieveOver == w.func = "retrieve_emails" /\ Finished

\* The ids the search answered, oldest first, when it answered.
SearchAnswers ==
    {log[i].body.l : i \in {j \in 1..Len(log) : log[j].x = "IMAP search"
                                                  /\ "body" \in DOMAIN log[j]}}

Matches == CHOOSE ids \in SearchAnswers : TRUE

\* The ids of the fetch requests, in the order they were made.
RECURSIVE FetchedIn(_)
FetchedIn(l) ==
    IF l = <<>> THEN <<>>
    ELSE (IF Head(l).x = "IMAP fetch" THEN <<Head(l).id>> ELSE <<>>) \o FetchedIn(Tail(l))

Fetched == FetchedIn(log)

\* The ids of the returned records, in the order of the list.
ReturnedIds == [i \in 1..Len(w.val.l) |-> w.val.l[i].id]

PositionIn(ids, id) == CHOOSE k \in 1..Len(ids) : ids[k] = id

\* a is b with some elements left out, the order kept
RECURSIVE IsSubsequence(_, _)
IsSubsequence(a, b) ==
    IF a = <<>> THEN TRUE
    ELSE IF b = <<>> THEN FALSE
    ELSE IF Head(a) = Head(b) THEN IsSubsequence(Tail(a), Tail(b))
    ELSE IsSubsequence(a, Tail(b))

Smaller(a, b) == IF a < b THEN a ELSE b

FetchesWithinLimit(limit) ==
    /\ Len(Fetched) <= Smaller(IF limit < 0 THEN 0 ELSE limit, Len(Matches))
    /\ \A i \in 1..Len(Fetched) :
          /\ \E k \in 1..Len(Matches) : Matches[k] = Fetched[i]
          /\ PositionIn(Matches, Fetched[i]) > Len(Matches) - limit
    /\ \A i, j \in 1..Len(Fetched) :
          i < j => PositionIn(Matches, Fetched[i]) > PositionIn(Matches, Fetched[j])
    /\ IsSubsequence(ReturnedIds, Fetched)

\* C22: retrieve_emails reverses the matching ids and cuts them to the limit
\* before any fetch: at most min(limit, number of matches) fetch requests are
\* made, only the `limit` most recent ids are fetched, most recent first, and
\* the records returned are a subsequence of them.  The cut is the slice
\* msg_ids[:limit], which for a negative limit drops ids from the end
\* instead of keeping none.
C22_FetchesCutToLimit ==
    (RetrieveOver /\ SearchAnswers # {}) => FetchesWithinLimit(tool.args.limit)

\* Two messages match and the limit is -1: the most recent one is fetched and
\* returned.
C22_Witness ==
    /\ RetrieveOver
    /\ tool.args.limit = -1
    /\ SearchAnswers = {<<1, 2>>}
    /\ Fetched = <<2>>
    /\ ReturnedIds = <<2>>

\* What does hold: the claim, for every limit that is not negative.
C22_HoldsForNaturalLimit ==
    (RetrieveOver /\ SearchAnswers # {} /\ tool.args.limit >= 0) =>
        FetchesWithinLimit(tool.args.limit)

\* Two messages match and the limit is 1: only the most recent is fetched.
C22_CutReached ==
    /\ RetrieveOver
    /\ tool.args.limit = 1
    /\ SearchAnswers = {<<1, 2>>}
    /\ Fetched = <<2>>

\* The ids the loop is to visit: the matches, most recent first, cut by the
\* slice [:limit].
RECURSIVE MostRecentFirst(_)
MostRecentFirst(ids) ==
    IF ids = <<>> THEN <<>> ELSE <<ids[Len(ids)]>> \o MostRecentFirst(SubSeq(ids, 1, Len(ids) - 1))

Selected ==
    LET n == Len(Matches)
        limit == tool.args.limit
        kept == IF limit >= n THEN n
                ELSE IF limit >= 0 THEN limit
                ELSE IF n + limit > 0 THEN n + limit ELSE 0
    IN  SubSeq(MostRecentFirst(Matches), 1, kept)

\* The ids whose fetch was answered OK, in the order of the requests.
RECURSIVE FetchedWell(_)
FetchedWell(l) ==
    IF l = <<>> THEN <<>>
    ELSE (IF Head(l).x = "IMAP fetch" /\ Head(l).n = 200 THEN <<Head(l).id>> ELSE <<>>)
         \o FetchedWell(Tail(l))

SelectOrSearchFailed ==
    \E i \in 1..Len(log) : log[i].x \in {"IMAP select", "IMAP search"} /\ log[i].n # 200

SomeFetchFailed == \E i \in 1..Len(log) : log[i].x = "IMAP fetch" /\ log[i].n # 200

\* C23: in retrieve_emails a message that cannot be fetched or processed is
\* the only one skipped: every selected message is still asked for, those
\* that could be fetched are returned, no older message takes the place of
\* the skipped one, and a failure of the folder selection or of the search
\* gives an empty list, without any fetch and without an exception.
C23_OnlySkipsTheFailedMessage ==
    RetrieveOver =>
        /\ w.state = "returned"
        /\ SearchAnswers # {} => /\ Fetched = Selected
                                 /\ ReturnedIds = FetchedWell(log)
        /\ SelectOrSearchFailed => Fetched = <<>> /\ w.val = PyList(<<>>)

\* Of two selected messages the most recent could not be fetched: the older
\* one was still fetched and is the only record returned.
C23_Witness ==
    /\ RetrieveOver
    /\ tool.args.limit = 2
    /\ SearchAnswers = {<<1, 2>>}
    /\ SomeFetchFailed
    /\ Fetched = <<2, 1>>
    /\ ReturnedIds = <<1>>

\* The limit is 1 and the most recent message could not be fetched: the
\* older one is not fetched in its place.
C23_NotReplaced ==
    /\ RetrieveOver
    /\ tool.args.limit = 1
    /\ SearchAnswers = {<<1, 2>>}
    /\ Fetched = <<2>>
    /\ ReturnedIds = <<>>

\* The search failed: nothing was fetched.
C23_SearchFailed ==
    /\ RetrieveOver
    /\ \E i \in 1..Len(log) : log[i].x = "IMAP search" /\ log[i].n # 200
    /\ w.val = PyList(<<>>)

(***************************************************************************)
(* Properties of the SMTP and IMAP sessions                                *)
(***************************************************************************)
Opens == {i \in 1..Len(log) : log[i].x \in {"SMTP connect", "IMAP connect"} /\ log[i].n = 200}

Closes == {i \in 1..Len(log) : log[i].ev = "did" /\ log[i].x \in {"SMTP quit", "IMAP logout"}}

SessionSteps == {i \in 1..Len(log) : log[i].ev = "req" /\ log[i].x \notin {"SMTP connect", "IMAP connect"}}

CloseOf(x) == IF x = "SMTP connect" THEN "SMTP quit" ELSE "IMAP logout"

\* Session i is closed by step j, and nothing of the session comes after j.
ClosedBy(i, j) ==
    /\ i < j
    /\ log[j].x = CloseOf(log[i].x)
    /\ \A k \in SessionSteps : i < k => k < j

\* C24: every SMTP session opened by send_email and every IMAP session opened
\* by retrieve_emails is closed when the call returns or raises, whatever the
\* path: success, refused login, failed submission, failed selection or
\* search, failed message.
C24_NoSessionLeftOpen ==
    EmailCallOver =>
        /\ \A i \in Opens : \E j \in Closes : ClosedBy(i, j)
        /\ Cardinality(Closes) = Cardinality(Opens)

\* The SMTP server refused the login: the session was closed before the
\* failure was returned.
C24_Witness ==
    /\ EmailCallOver
    /\ w.func = "send_email"
    /\ \E i \in 1..Len(log) : log[i] = Req("SMTP login", 535)
    /\ Opens # {}
    /\ log[Len(log)] = Did("SMTP quit")

\* A fetch of the IMAP session failed: the session was
\* closed all the same.
C24_ImapClosedAfterFailure ==
    /\ EmailCallOver
    /\ w.func = "retrieve_emails"
    /\ SomeFetchFailed
    /\ Opens # {}
    /\ log[Len(log)] = Did("IMAP logout")

(***************************************************************************)
(* A second view of the retry decorators: wrapped operations invoked from  *)
(* several threads.  Here w maps each thread to the frame of its wrapper   *)
(* call and tpc counts the invocations each thread has started.            *)
(***************************************************************************)
Threads == {"t1", "t2"}

MaxInvocations == 2

\* What one run of the wrapped function may do, as its wrapper sees it.
ThreadOutcomes(domain) ==
    IF domain = "calendar"
    THEN {Ret(PyBool(TRUE)), Raise(HttpError(500)), Raise(HttpError(404)),
          Raise(Exc("ValueError", 0, <<"bad value">>))}
    ELSE {Ret(PyBool(TRUE)), Raise(HTTPError(500)), Raise(HTTPError(400)),
          Raise(ConnectionError)}

\* A wrapper whose retries counter would be one variable for all calls.
wrapper_shared_retries(frames, t) ==
    [frames[t] EXCEPT !.retries =
        CHOOSE r \in {frames[u].retries : u \in Threads} :
            \A u \in Threads : frames[u].retries <= r]

\* retries is a local variable of wrapper: each call has its own.
wrapper_locals(frames, t) == frames[t]

ThreadsInit ==
    /\ w = [t \in Threads |-> NoFrame]
    /\ tpc = [t \in Threads |-> 0]
    /\ tool = [name |-> "none", args |-> PyNone]
    /\ tret = PyNone
    /\ log = <<>>
    /\ fetched = PyNone
    /\ cal = NoEvents
    /\ prev = NoDelete

\* A thread calls a wrapped operation: wrapper is entered, retries = 0.
thread_invokes(t) ==
    /\ w[t].state \in {"idle", "returned", "raised"}
    /\ tpc[t] < MaxInvocations
    /\ \E frame \in {CalendarFrame("core_list_events"), RelayFrame("send_message")} :
          w' = [w EXCEPT ![t] = frame]
    /\ tpc' = [tpc EXCEPT ![t] = @ + 1]
    /\ UNCHANGED <<tool, tret, log, fetched, cal, prev>>

\* One round of the loop of a thread's wrapper call.
thread_round(t) ==
    /\ w[t].state = "running"
    /\ \E out \in ThreadOutcomes(w[t].domain) :
          w' = [w EXCEPT ![t] = IF w[t].domain = "calendar"
                                THEN calendar_wrapper(wrapper_locals(w, t), out)
                                ELSE communication_wrapper(wrapper_locals(w, t), out)]
    /\ UNCHANGED <<tool, tpc, tret, log, fetched, cal, prev>>

ThreadsNext ==
    \/ \E t \in Threads : thread_invokes(t)
    \/ \E t \in Threads : thread_round(t)

ThreadsSpec == ThreadsInit /\ [][ThreadsNext]_vars

(***************************************************************************)
(* Properties of the retry attempt state                                   *)
(***************************************************************************)
\* The attempts of frame f that failed and were counted as a retry.
CountedFailures(f) ==
    {i \in 1..Len(f.outs) :
        /\ f.outs[i].kind = "exc"
        /\ ~(f.outs[i].exc.cls = "HttpError" /\ f.outs[i].exc.status \in {400, 401, 403, 404})
        /\ ~(f.outs[i].exc.cls = "HTTPError" /\ f.outs[i].exc.status \in {400, 401, 403, 422})}

\* The delay the k-th counted failure of f calls for.
DelayAfter(f, k) ==
    IF f.outs[k].exc.cls \in {"HttpError", "HTTPError"}
       \/ (f.domain = "communication" /\ f.outs[k].exc.cls \in {"ConnectionError", "Timeout"})
    THEN f.delay * (2 ^ (k - 1))
    ELSE f.delay

\* The attempts and delays of f follow from its own outcomes alone.
OwnAttemptsOnly(f) ==
    /\ f.calls = Len(f.outs)
    /\ f.calls = 0 => f.retries = 0 /\ f.sleeps = <<>>
    /\ f.retries = Cardinality(CountedFailures(f))
    /\ f.retries <= f.max_retries + 1
    /\ Len(f.sleeps) = (IF f.retries > f.max_retries THEN f.max_retries ELSE f.retries)
    /\ \A k \in 1..Len(f.sleeps) : f.sleeps[k] = DelayAfter(f, k)
    /\ f.state = "running" => f.calls = f.retries
    /\ f.state = "raised" =>
          \/ f.retries > f.max_retries
          \/ Len(f.outs) \notin CountedFailures(f)

\* C25: the retry counter belongs to one invocation.  Each invocation of a
\* wrapped operation starts with retries = 0, and the number of its attempts
\* and its delays follow from its own outcomes, whatever retries another
\* invocation has used, before it or interleaved with it on another thread.
C25_RetryStateLocalToInvocation ==
    \A t \in Threads : w[t].state # "idle" => OwnAttemptsOnly(w[t])

\* While t1 has used three retries of its invocation, t2, in its second
\* invocation, has failed once and slept the first delay.
C25_Witness ==
    /\ w["t1"].state = "running" /\ w["t1"].retries = 3
    /\ tpc["t2"] = 2
    /\ w["t2"].state = "running" /\ w["t2"].retries = 1
    /\ w["t2"].sleeps = <<DefaultDelay>>

(***************************************************************************)
(* Properties of the contact lookup                                        *)
(***************************************************************************)
ContactLookups == {i \in 1..Len(log) : log[i].ev = "req" /\ log[i].x = "GET /contacts"}

ChatPosts == {i \in 1..Len(log) : log[i].ev = "req" /\ log[i].x = "POST /chats"}

Fallback == PyStr(tool.args.phone.s \o <<"@c.us">>)

\* get_contact_id, called by itself, is over.
LookupOver == tool.name = "get_contact_id" /\ w.func = "get_contact_id" /\ Finished

\* send_message is running or over.
InSendMessage == w.func = "send_message" /\ w.state # "idle"

\* C26: the contact lookup never raises and is never retried; when it fails,
\* whatever the failure, or finds no contact, it returns "<phone>@c.us".  So
\* a failed lookup does not abort a send: each attempt of send_message makes
\* exactly one lookup request, followed at once by one POST of the message.
C26_LookupNeverRaisesNorRetries ==
    /\ LookupOver =>
          /\ w.state = "returned"
          /\ w.calls = 1 /\ w.retries = 0 /\ w.sleeps = <<>>
          /\ Cardinality(ContactLookups) = 1 /\ Len(log) = 1
          /\ log[1].n # 200 => w.val = Fallback
    /\ InSendMessage =>
          /\ Cardinality(ContactLookups) = w.calls
          /\ Cardinality(ChatPosts) = w.calls
          /\ \A i \in ContactLookups :
                /\ i = 1 \/ log[i - 1].ev = "sleep"
                /\ i + 1 \in ChatPosts
          /\ \A i \in ChatPosts : i - 1 \in ContactLookups

\* The relay refused the lookup with a status that is not retried, and the
\* message was posted all the same and the send returned.
C26_Witness ==
    /\ InSendMessage
    /\ w.state = "returned"
    /\ log = <<Req("GET /contacts", 400), ReqOk("POST /chats")>>

\* The lookup by itself met a transient failure and returned the fallback.
C26_FallbackReturned ==
    /\ LookupOver
    /\ log = <<Req("GET /contacts", 500)>>
    /\ w.val = Fallback

\* The lookup failed in each of two attempts of a send, once per attempt.
C26_OneLookupPerAttempt ==
    /\ InSendMessage
    /\ w.calls = 2
    /\ \A i \in ContactLookups : log[i].n = 500
    /\ Cardinality(ContactLookups) = 2

====
